---- MODULE Spec2Model ----
(***************************************************************************)
(* The incremental Poseidon Merkle tree of the ZK swap scripts.            *)
(*                                                                         *)
(* The repository carries the tree class in two shapes:                    *)
(*   "fullZKSwap"    fullZKSwap.ts, fullZKSwapWithRelayer.ts: the leaf     *)
(*                   count is layers[0].length, insert never initializes,  *)
(*                   getRoot falls back with ?? (nullish);                 *)
(*   "zkOnChainTest" zkOnChainTest.ts and the unnamed part_000: a separate *)
(*                   leaves array counts the leaves, insert initializes    *)
(*                   lazily, getRoot tests the stored root for truthiness. *)
(* One tree object is modelled; impl says which class it is an object of.  *)
(*                                                                         *)
(* JavaScript arrays are modelled as functions from a finite set of        *)
(* indices (0-based, holes allowed) to values; a read of a missing index   *)
(* gives Undefined.  Field elements are naturals.  The Poseidon hash is an *)
(* external library: it is modelled as an injective function.  Under Spec  *)
(* no input of a run hashes to the field element 0 (the symbolic model of  *)
(* a hash); under SpecZeroHash one pair of inputs (zeroPre) does.          *)
(* Under Spec the hasher is taken as built: every main() awaits            *)
(* initPoseidon() before it constructs a tree, and every call runs to      *)
(* completion before the next one starts (the callers await each call).    *)
(*                                                                         *)
(* More specifications share the variables:                                *)
(*   SpecZeroHash  the calls of Spec with a pair of inputs hashing to 0;   *)
(*   SpecHasher    concurrent callers of initPoseidon(), one step per      *)
(*                 stretch of code between awaits;                         *)
(*   SpecMain      main() of zkOnChainTest.ts step by step, from           *)
(*                 initPoseidon() to the input of the prover, over every   *)
(*                 content of the random source;                           *)
(*   SpecTwin      a fullZKSwap tree and a zkOnChainTest tree that get the *)
(*                 same calls;                                             *)
(*   SpecBinding   two trees of one shape that get the same calls with     *)
(*                 leaves that may differ;                                 *)
(*   SpecAsync     insert calls that are not awaited, one step per stretch *)
(*                 of code between awaits, resumed in any order;           *)
(*   SpecRelayer   main() of fullZKSwapWithRelayer.ts, one step per await, *)
(*                 with the outcomes of the chain, the relayer service and *)
(*                 the prover chosen freely.                               *)
(***************************************************************************)
EXTENDS Integers, Sequences, FiniteSets, TLC

\* ---------------------------------------------------------------- bounds
MaxHeight == 2
MaxLeaf == 1
MaxInserts == 4
MaxTasks == 2
MaxCalls == 2
MaxKeys == 2
MaxAmount == 2

\* ------------------------------------------------------------- constants
\* ZERO_VALUE is a fixed non-zero field element; only that it is fixed and
\* non-zero matters to the tree, so it is abstracted to a small number.
ZERO_VALUE == 1

\* The field has FIELD_SIZE elements.  randomFieldElement reads RANDOM_BYTES
\* bytes of BYTE_BITS bits each.  The source's 32 bytes of 8 bits against a
\* 254-bit prime are scaled down to two bytes of two bits against the prime
\* 5: as in the source the buffer holds numbers up to several times the
\* modulus (0..15 here), so that a draw can wrap around it more than once.
FIELD_SIZE == 5
RANDOM_BYTES == 2
BYTE_BITS == 2

\* The height of the tree that main() builds, scaled down from 20.
MERKLE_TREE_HEIGHT == 1

\* The relayer's fee in basis points.
RELAYER_FEE_BPS == 10

\* The private key that main() of fullZKSwapWithRelayer.ts uses for the owner
\* wallet when OWNER_KEY is not set, as a number among the keys of a run.
DEFAULT_OWNER_KEY == 1

\* parseEther("10"), the amount that main() of fullZKSwapWithRelayer.ts
\* deposits and swaps, scaled down.
SWAP_AMOUNT == 1

\* JavaScript's undefined (no field element is negative).
Undefined == 0 - 1

Impls == {"fullZKSwap", "zkOnChainTest"}
Heights == (0 - 1)..MaxHeight
Leaves == 0..MaxLeaf

VARIABLES
    impl,           \* which of the two class shapes the object is
    zeroPre,        \* the pair of inputs that Poseidon sends to 0
    height,         \* this.height
    leaves,         \* this.leaves (zkOnChainTest shape only)
    zeros,          \* this.zeros
    layers,         \* this.layers
    ret,            \* the outcome of the last call
    hist,           \* one record per insert call that returned, kept
                    \* while the tree has not been reinitialized
    inserts,        \* number of insert calls made
    reinitialized,  \* initialize() ran on a tree that held a leaf
    input,          \* the circuit input built by the last call, if that
                    \* call was generateZKProof
    poseidon,       \* the module's let poseidon: the hasher instance
    F,              \* the module's let F: the field of the instance
    builds,         \* number of buildPoseidon() invocations
    assigns,        \* number of assignments to poseidon
    tasks,          \* the position of every concurrent caller of initPoseidon
    pc,             \* the position of main()
    depositNote,    \* main's const note
    mainLeafIndex,  \* main's const leafIndex
    entropy,        \* the random source: its byte stream and how many
                    \* bytes of it crypto.getRandomValues has handed out
    twin,           \* a second tree object that receives the same calls,
                    \* and the outcome of its last call
    frames,         \* the insert calls in the order they were made: where
                    \* each one is suspended and the locals it holds
    overlapped,     \* some insert was called while another was suspended
    env,            \* process.env: PRIVATE_KEY and OWNER_KEY
    chain,          \* the transactions sent to the chain, in order
    trace,          \* the steps of the relayer flow taken so far, each
                    \* with its outcome
    exitCode,       \* the exit code of the process once it has ended
    stealthAddress, \* main's const stealthAddress
    relayerAddress  \* main's let relayerAddress

treeVars == <<impl, zeroPre, height, leaves, zeros, layers, ret, hist, inserts,
              reinitialized, input>>
hasherVars == <<poseidon, F, builds, assigns, tasks>>
mainVars == <<pc, depositNote, mainLeafIndex, entropy>>
asyncVars == <<frames, overlapped>>
relayVars == <<env, chain, trace, exitCode, stealthAddress, relayerAddress>>
otherVars == <<twin, asyncVars, relayVars>>

vars == <<impl, zeroPre, height, leaves, zeros, layers, ret, hist, inserts, reinitialized,
          input, poseidon, F, builds, assigns, tasks, pc, depositNote, mainLeafIndex, entropy,
          twin, frames, overlapped, env, chain, trace, exitCode, stealthAddress,
          relayerAddress>>

\* ------------------------------------------------------ JavaScript arrays
\* a.length
Length(a) ==
    IF DOMAIN a = {} THEN 0
    ELSE (CHOOSE m \in DOMAIN a : \A k \in DOMAIN a : k <= m) + 1

\* a[j]
At(a, j) == IF j \in DOMAIN a THEN a[j] ELSE Undefined

\* a[j] = v
Put(a, j, v) == [k \in (DOMAIN a) \cup {j} |-> IF k = j THEN v ELSE a[k]]

\* a.push(v)
Push(a, v) == Put(a, Length(a), v)

\* x ?? d
Nullish(x, d) == IF x = Undefined THEN d ELSE x

\* if (x): undefined and the bigint 0n are falsy
Truthy(x) == x # Undefined /\ x # 0

\* ------------------------------------------------------------------ hash
\* An injective code of a pair of naturals that is never 0.
PairCode(a, b) == ((a + b) * (a + b + 1)) \div 2 + b + 1

\* The code of one, two or three inputs, injective on each arity.
InputsCode(inputs) ==
    IF Len(inputs) = 1 THEN PairCode(0, inputs[1])
    ELSE IF Len(inputs) = 2 THEN PairCode(inputs[1], inputs[2])
    ELSE PairCode(PairCode(inputs[1], inputs[2]), inputs[3])

\* poseidonHash(inputs): injective, 0 only at zeroPre.
poseidonHash(inputs) ==
    IF inputs = zeroPre THEN 0 ELSE InputsCode(inputs)

\* The candidate preimages of 0: none among the values of a run, or a pair
\* of leaf-level values (the field element 0, the empty-leaf constant).
NoPreimage == <<Undefined, Undefined>>
ZeroPreimages == {NoPreimage} \cup ({0, ZERO_VALUE} \X {0, ZERO_VALUE})

\* ------------------------------------------------------------------ tree
This == [impl |-> impl, height |-> height, leaves |-> leaves,
         zeros |-> zeros, layers |-> layers]

\* new PoseidonMerkleTree(h) / new MerkleTree(h)
NewTree(im, h) == [impl |-> im, height |-> h, leaves |-> <<>>,
                   zeros |-> <<>>, layers |-> <<>>]

\* zerosLoop stopping one level early (i < height).
RECURSIVE zerosLoopShort(_, _, _)
zerosLoopShort(z, i, h) ==
    IF i < h
    THEN zerosLoopShort(Put(z, i, poseidonHash(<<At(z, i - 1), At(z, i - 1)>>)), i + 1, h)
    ELSE z

\* The loop of initialize(): zeros[i] = hash(zeros[i-1], zeros[i-1]).
RECURSIVE zerosLoop(_, _, _)
zerosLoop(z, i, h) ==
    IF i <= h
    THEN zerosLoop(Put(z, i, poseidonHash(<<At(z, i - 1), At(z, i - 1)>>)), i + 1, h)
    ELSE z

\* initialize() filling every level of zeros with ZERO_VALUE, nothing hashed.
initializeFlatZeros(t) ==
    [t EXCEPT !.zeros = [i \in 0..(IF t.height >= 0 THEN t.height ELSE 0) |-> ZERO_VALUE],
              !.layers = [l \in 0..t.height |-> <<>>]]

\* initialize(): zeros from ZERO_VALUE upward, height + 1 empty layers.
\* The leaves array of the zkOnChainTest shape is not touched.
initialize(t) ==
    [t EXCEPT !.zeros = zerosLoop(Put(<<>>, 0, ZERO_VALUE), 1, t.height),
              !.layers = [l \in 0..t.height |-> <<>>]]

\* The number of leaves the tree counts: layers[0].length in the fullZKSwap
\* shape, leaves.length in the zkOnChainTest shape.
Count(t) ==
    IF t.impl = "fullZKSwap"
    THEN (IF 0 \in DOMAIN t.layers THEN Length(t.layers[0]) ELSE 0)
    ELSE Length(t.leaves)

\* The index taken from a counter of the insert calls of the process instead
\* of from the tree.
nextIndexShared(t) == inserts

\* const index = this.layers[0].length (fullZKSwap), this.leaves.length
\* (zkOnChainTest): the index the next leaf gets.
nextIndex(t) ==
    IF t.impl = "fullZKSwap" THEN Length(t.layers[0]) ELSE Length(t.leaves)

\* insertLoop that also stores the sibling it read (a zero where none was
\* stored).
RECURSIVE insertLoopStoresSibling(_, _, _, _)
insertLoopStoresSibling(t, level, currentIndex, currentValue) ==
    IF level < t.height
    THEN LET isLeft == currentIndex % 2 = 0
             siblingIndex == IF isLeft THEN currentIndex + 1 ELSE currentIndex - 1
             sibling == Nullish(At(t.layers[level], siblingIndex), At(t.zeros, level))
             left == IF isLeft THEN currentValue ELSE sibling
             right == IF isLeft THEN sibling ELSE currentValue
             parentValue == poseidonHash(<<left, right>>)
             parentIndex == currentIndex \div 2
         IN  insertLoopStoresSibling(
                 [t EXCEPT !.layers[level] = Put(@, siblingIndex, sibling),
                           !.layers[level + 1] = Put(@, parentIndex, parentValue)],
                 level + 1, parentIndex, parentValue)
    ELSE t

\* insertLoop taking the zero of the level above for a missing sibling.
RECURSIVE insertLoopZeroAbove(_, _, _, _)
insertLoopZeroAbove(t, level, currentIndex, currentValue) ==
    IF level < t.height
    THEN LET isLeft == currentIndex % 2 = 0
             siblingIndex == IF isLeft THEN currentIndex + 1 ELSE currentIndex - 1
             sibling == Nullish(At(t.layers[level], siblingIndex), At(t.zeros, level + 1))
             left == IF isLeft THEN currentValue ELSE sibling
             right == IF isLeft THEN sibling ELSE currentValue
             parentValue == poseidonHash(<<left, right>>)
             parentIndex == currentIndex \div 2
         IN  insertLoopZeroAbove(
                 [t EXCEPT !.layers[level + 1] = Put(@, parentIndex, parentValue)],
                 level + 1, parentIndex, parentValue)
    ELSE t

\* The loop of insert(): hash upward from the new leaf, storing each parent.
RECURSIVE insertLoop(_, _, _, _)
insertLoop(t, level, currentIndex, currentValue) ==
    IF level < t.height
    THEN LET isLeft == currentIndex % 2 = 0
             siblingIndex == IF isLeft THEN currentIndex + 1 ELSE currentIndex - 1
             sibling == Nullish(At(t.layers[level], siblingIndex), At(t.zeros, level))
             left == IF isLeft THEN currentValue ELSE sibling
             right == IF isLeft THEN sibling ELSE currentValue
             parentValue == poseidonHash(<<left, right>>)
             parentIndex == currentIndex \div 2
         IN  insertLoop([t EXCEPT !.layers[level + 1] = Put(@, parentIndex, parentValue)],
                        level + 1, parentIndex, parentValue)
    ELSE t

\* insert(leaf) of fullZKSwap.ts: reading this.layers[0].length throws a
\* TypeError on a tree that has no layer 0; nothing else is checked.
insertFullZKSwap(t, leaf) ==
    IF 0 \notin DOMAIN t.layers
    THEN [tree |-> t, threw |-> TRUE, index |-> Undefined]
    ELSE LET index == nextIndex(t)
             t1 == [t EXCEPT !.layers[0] = Push(@, leaf)]
         IN  [tree |-> insertLoop(t1, 0, index, leaf), threw |-> FALSE, index |-> index]

\* insert of the zkOnChainTest shape returning the length of leaves after
\* the push instead of the index of the new leaf.
insertZkOnChainTestReturnsLength(t, leaf) ==
    LET t0 == IF Length(t.zeros) = 0 THEN initialize(t) ELSE t
        index == nextIndex(t0)
        t1 == [t0 EXCEPT !.leaves = Push(@, leaf)]
    IN  IF 0 \notin DOMAIN t1.layers
        THEN [tree |-> t1, threw |-> TRUE, index |-> Undefined]
        ELSE LET t2 == [t1 EXCEPT !.layers[0] = Put(@, index, leaf)]
             IN  [tree |-> insertLoop(t2, 0, index, leaf), threw |-> FALSE,
                  index |-> Length(t1.leaves)]

\* insert(leaf) of zkOnChainTest.ts: initializes when zeros is empty, pushes
\* onto leaves, then writes layers[0][index], which throws a TypeError when
\* there is no layer 0 (the leaf stays pushed).
insertZkOnChainTest(t, leaf) ==
    LET t0 == IF Length(t.zeros) = 0 THEN initialize(t) ELSE t
        index == nextIndex(t0)
        t1 == [t0 EXCEPT !.leaves = Push(@, leaf)]
    IN  IF 0 \notin DOMAIN t1.layers
        THEN [tree |-> t1, threw |-> TRUE, index |-> Undefined]
        ELSE LET t2 == [t1 EXCEPT !.layers[0] = Put(@, index, leaf)]
             IN  [tree |-> insertLoop(t2, 0, index, leaf), threw |-> FALSE, index |-> index]

insert(t, leaf) ==
    IF t.impl = "fullZKSwap" THEN insertFullZKSwap(t, leaf) ELSE insertZkOnChainTest(t, leaf)

\* this.layers[this.height]?.[0]
StoredRoot(t) ==
    IF t.height \in DOMAIN t.layers THEN At(t.layers[t.height], 0) ELSE Undefined

\* getRoot falling back to the zero of the level below the root.
getRootLevelBelow(t) == Nullish(StoredRoot(t), At(t.zeros, t.height - 1))

\* getRoot() of fullZKSwap.ts: stored root ?? zeros[height].
getRootFullZKSwap(t) == Nullish(StoredRoot(t), At(t.zeros, t.height))

\* getRoot() of zkOnChainTest.ts: the stored root if it is truthy, else zeros[height].
getRootZkOnChainTest(t) ==
    IF Truthy(StoredRoot(t)) THEN StoredRoot(t) ELSE At(t.zeros, t.height)

getRoot(t) ==
    IF t.impl = "fullZKSwap" THEN getRootFullZKSwap(t) ELSE getRootZkOnChainTest(t)

\* proofLoop taking the zero of the level above for a missing sibling.
RECURSIVE proofLoopZeroAbove(_, _, _, _, _)
proofLoopZeroAbove(t, level, currentIndex, pathElements, pathIndices) ==
    IF level < t.height
    THEN LET isLeft == currentIndex % 2 = 0
             siblingIndex == IF isLeft THEN currentIndex + 1 ELSE currentIndex - 1
             sibling == Nullish(At(t.layers[level], siblingIndex), At(t.zeros, level + 1))
         IN  proofLoopZeroAbove(t, level + 1, currentIndex \div 2,
                                Push(pathElements, sibling),
                                Push(pathIndices, IF isLeft THEN 0 ELSE 1))
    ELSE [tree |-> t, pathElements |-> pathElements, pathIndices |-> pathIndices]

\* proofLoop that stores the zero it read for a missing sibling in the layer.
RECURSIVE proofLoopFillsSiblings(_, _, _, _, _)
proofLoopFillsSiblings(t, level, currentIndex, pathElements, pathIndices) ==
    IF level < t.height
    THEN LET isLeft == currentIndex % 2 = 0
             siblingIndex == IF isLeft THEN currentIndex + 1 ELSE currentIndex - 1
             sibling == Nullish(At(t.layers[level], siblingIndex), At(t.zeros, level))
         IN  proofLoopFillsSiblings(
                 [t EXCEPT !.layers[level] = Put(@, siblingIndex, sibling)],
                 level + 1, currentIndex \div 2,
                 Push(pathElements, sibling),
                 Push(pathIndices, IF isLeft THEN 0 ELSE 1))
    ELSE [tree |-> t, pathElements |-> pathElements, pathIndices |-> pathIndices]

\* proofLoop that keeps the leaf's index at every level instead of halving it.
RECURSIVE proofLoopNoAscend(_, _, _, _, _)
proofLoopNoAscend(t, level, currentIndex, pathElements, pathIndices) ==
    IF level < t.height
    THEN LET isLeft == currentIndex % 2 = 0
             siblingIndex == IF isLeft THEN currentIndex + 1 ELSE currentIndex - 1
             sibling == Nullish(At(t.layers[level], siblingIndex), At(t.zeros, level))
         IN  proofLoopNoAscend(t, level + 1, currentIndex,
                               Push(pathElements, sibling),
                               Push(pathIndices, IF isLeft THEN 0 ELSE 1))
    ELSE [tree |-> t, pathElements |-> pathElements, pathIndices |-> pathIndices]

\* proofLoop with the sides swapped: 1 for a left child, 0 for a right child.
RECURSIVE proofLoopSwapped(_, _, _, _, _)
proofLoopSwapped(t, level, currentIndex, pathElements, pathIndices) ==
    IF level < t.height
    THEN LET isLeft == currentIndex % 2 = 0
             siblingIndex == IF isLeft THEN currentIndex + 1 ELSE currentIndex - 1
             sibling == Nullish(At(t.layers[level], siblingIndex), At(t.zeros, level))
         IN  proofLoopSwapped(t, level + 1, currentIndex \div 2,
                              Push(pathElements, sibling),
                              Push(pathIndices, IF isLeft THEN 1 ELSE 0))
    ELSE [tree |-> t, pathElements |-> pathElements, pathIndices |-> pathIndices]

\* The loop of getProof(): the sibling and the side at every level.
RECURSIVE proofLoop(_, _, _, _, _)
proofLoop(t, level, currentIndex, pathElements, pathIndices) ==
    IF level < t.height
    THEN LET isLeft == currentIndex % 2 = 0
             siblingIndex == IF isLeft THEN currentIndex + 1 ELSE currentIndex - 1
             sibling == Nullish(At(t.layers[level], siblingIndex), At(t.zeros, level))
         IN  proofLoop(t, level + 1, currentIndex \div 2,
                       Push(pathElements, sibling),
                       Push(pathIndices, IF isLeft THEN 0 ELSE 1))
    ELSE [tree |-> t, pathElements |-> pathElements, pathIndices |-> pathIndices]

\* getProof(leafIndex): no check of leafIndex; reading this.layers[0][..]
\* throws a TypeError when the loop runs on a tree that has no layers.
\* tree is the object after the call.
getProof(t, leafIndex) ==
    IF t.height >= 1 /\ 0 \notin DOMAIN t.layers
    THEN [tree |-> t, threw |-> TRUE, root |-> Undefined,
          pathElements |-> <<>>, pathIndices |-> <<>>]
    ELSE LET p == proofLoop(t, 0, leafIndex, <<>>, <<>>)
         IN  [tree |-> p.tree, threw |-> FALSE, root |-> getRoot(p.tree),
              pathElements |-> p.pathElements, pathIndices |-> p.pathIndices]

\* ------------------------------------------------------------------ note
\* n.toString(16): the digits of n in base 16, most significant first.
RECURSIVE toStringHex(_)
toStringHex(n) ==
    IF n < 16 THEN <<n>> ELSE Append(toStringHex(n \div 16), n % 16)

\* n.toString() of a bigint: the decimal digits of n, most significant first
\* (a string is modelled as the sequence of its digits).
RECURSIVE toString(_)
toString(n) ==
    IF n < 10 THEN <<n>> ELSE Append(toString(n \div 10), n % 10)

\* The loop of randomFieldElement with the bytes taken from the last to the
\* first (little-endian).
RECURSIVE randomLoopLittleEndian(_, _, _)
randomLoopLittleEndian(num, bytes, i) ==
    IF i < RANDOM_BYTES
    THEN randomLoopLittleEndian(num * (2 ^ BYTE_BITS) + bytes[RANDOM_BYTES - 1 - i],
                                bytes, i + 1)
    ELSE num

\* The loop of randomFieldElement: num = (num << 8) | bytes[i]; the or adds
\* the byte, the low bits of the shifted num being 0.
RECURSIVE randomLoop(_, _, _)
randomLoop(num, bytes, i) ==
    IF i < RANDOM_BYTES
    THEN randomLoop(num * (2 ^ BYTE_BITS) + bytes[i], bytes, i + 1)
    ELSE num

\* The values of a byte, and the byte streams the random source can hold:
\* enough bytes for the two draws of one createDepositNote call.
Bytes == 0..(2 ^ BYTE_BITS - 1)
Streams == [0..(2 * RANDOM_BYTES - 1) -> Bytes]

\* crypto.getRandomValues(new Uint8Array(32)): the next RANDOM_BYTES bytes of
\* the source, which are then spent.
getRandomValues(e) ==
    [bytes |-> [i \in 0..(RANDOM_BYTES - 1) |-> e.stream[e.cursor + i]],
     entropy |-> [e EXCEPT !.cursor = @ + RANDOM_BYTES]]

\* randomFieldElement(): the number of a fresh buffer, modulo FIELD_SIZE.
randomFieldElement(e) ==
    LET r == getRandomValues(e)
    IN  [value |-> randomLoop(0, r.bytes, 0) % FIELD_SIZE, entropy |-> r.entropy]

\* createDepositNote hashing [secret, nullifier, amount] into the commitment.
createDepositNoteSecretFirst(amount, e) ==
    LET s == randomFieldElement(e)
        n == randomFieldElement(s.entropy)
    IN  [note |-> [secret |-> s.value, nullifier |-> n.value, amount |-> amount,
                   commitment |-> poseidonHash(<<s.value, n.value, amount>>),
                   nullifierHash |-> poseidonHash(<<n.value>>),
                   leafIndex |-> Undefined],
         entropy |-> n.entropy]

\* createDepositNote(amount): secret, then nullifier, each from its own
\* randomFieldElement call; the note has no leafIndex yet.
createDepositNote(amount, e) ==
    LET s == randomFieldElement(e)
        n == randomFieldElement(s.entropy)
    IN  [note |-> [secret |-> s.value, nullifier |-> n.value, amount |-> amount,
                   commitment |-> poseidonHash(<<n.value, s.value, amount>>),
                   nullifierHash |-> poseidonHash(<<n.value>>),
                   leafIndex |-> Undefined],
         entropy |-> n.entropy]

\* The input object of generateZKProof / main: field values as decimal
\* strings, pathIndices as it is in the proof.  Calling toString on a root
\* that is undefined throws a TypeError.
proofInput(note, merkleProof, recipient, relayer, relayerFee, swapAmountOut) ==
    IF merkleProof.root = Undefined
    THEN [threw |-> TRUE]
    ELSE [threw |-> FALSE,
          merkleRoot |-> toString(merkleProof.root),
          nullifierHash |-> toString(note.nullifierHash),
          recipient |-> recipient,
          relayer |-> relayer,
          relayerFee |-> relayerFee,
          swapAmountOut |-> swapAmountOut,
          secret |-> toString(note.secret),
          nullifier |-> toString(note.nullifier),
          depositAmount |-> toString(note.amount),
          pathElements |-> [l \in DOMAIN merkleProof.pathElements |->
                               toString(merkleProof.pathElements[l])],
          pathIndices |-> merkleProof.pathIndices]

\* No generateZKProof call was the last call.
NoInput == [threw |-> FALSE]

\* ------------------------------------------------------------ the calls
Outcome(op, arg, threw, index, root, pathElements, pathIndices) ==
    [op |-> op, arg |-> arg, threw |-> threw, index |-> index, root |-> root,
     pathElements |-> pathElements, pathIndices |-> pathIndices]

\* What an insert call that returned left behind: the leaf, the index it
\* returned, and the root, count and proofs of the tree at that moment.
Snapshot(t, leaf, index) ==
    [leaf |-> leaf, index |-> index, root |-> getRoot(t), count |-> Count(t),
     proofs |-> [i \in 0..(Count(t) - 1) |-> getProof(t, i)]]

\* The callers of initPoseidon that can be in flight together.
Tasks == 1..MaxTasks

\* A caller that has not called yet.
Idle == [entry |-> "none", at |-> "idle", instance |-> Undefined]

\* The hasher after main's await initPoseidon(): built once, nobody calling.
HasherBuilt ==
    /\ poseidon = 1 /\ F = 1 /\ builds = 1 /\ assigns = 1
    /\ tasks = [task \in Tasks |-> Idle]

\* main has created no note and read no random byte.
NoNote == [leafIndex |-> Undefined]
NoEntropy == [stream |-> <<>>, cursor |-> 0]

\* The insert calls of a run, numbered in the order they are made: one more
\* than can be in flight together.
Calls == 1..(MaxCalls + 1)

\* An insert call that has not been made.
NoCall == [at |-> "idle", leaf |-> Undefined, lazy |-> FALSE, i |-> Undefined,
           prevZero |-> Undefined, index |-> Undefined, level |-> Undefined,
           currentIndex |-> Undefined, left |-> Undefined, right |-> Undefined]

\* No insert call has been made.
NoCallsMade ==
    /\ frames = [c \in Calls |-> NoCall]
    /\ overlapped = FALSE

\* The relayer flow is not running: no environment read, nothing sent.
NoRelayerFlow ==
    /\ env = [PRIVATE_KEY |-> Undefined, OWNER_KEY |-> Undefined]
    /\ chain = <<>>
    /\ trace = <<>>
    /\ exitCode = Undefined
    /\ stealthAddress = Undefined
    /\ relayerAddress = Undefined

\* There is no second tree.
NoTwin == [tree |-> NewTree("none", Undefined),
           ret |-> Outcome("none", 0, FALSE, Undefined, Undefined, <<>>, <<>>)]

\* Nothing runs beside the calls of the specification at hand.
OthersAtRest ==
    /\ twin = NoTwin
    /\ NoCallsMade
    /\ NoRelayerFlow

\* main() is not running.
MainNotRunning ==
    /\ pc = "none" /\ depositNote = NoNote /\ mainLeafIndex = Undefined
    /\ entropy = NoEntropy

Init ==
    /\ impl \in Impls
    /\ zeroPre = NoPreimage
    /\ height \in Heights
    /\ leaves = <<>>
    /\ zeros = <<>>
    /\ layers = <<>>
    /\ ret = Outcome("new", height, FALSE, Undefined, Undefined, <<>>, <<>>)
    /\ hist = <<>>
    /\ inserts = 0
    /\ reinitialized = FALSE
    /\ input = NoInput
    /\ HasherBuilt
    /\ MainNotRunning
    /\ OthersAtRest

\* await tree.initialize()
Initialize ==
    LET t == initialize(This)
    IN  /\ zeros' = t.zeros
        /\ layers' = t.layers
        /\ ret' = Outcome("initialize", 0, FALSE, Undefined, Undefined, <<>>, <<>>)
        /\ reinitialized' = (reinitialized \/ Count(This) > 0 \/ Length(leaves) > 0)
        /\ hist' = IF reinitialized' THEN <<>> ELSE hist
        /\ input' = NoInput
        /\ UNCHANGED <<impl, zeroPre, height, leaves, inserts>>
        /\ UNCHANGED <<hasherVars, mainVars, otherVars>>

\* await tree.insert(leaf), run to completion
Insert(leaf) ==
    /\ inserts < MaxInserts
    /\ LET r == insert(This, leaf)
       IN  /\ leaves' = r.tree.leaves
           /\ zeros' = r.tree.zeros
           /\ layers' = r.tree.layers
           /\ ret' = Outcome("insert", leaf, r.threw, r.index, Undefined, <<>>, <<>>)
           /\ hist' = IF r.threw \/ reinitialized
                      THEN hist
                      ELSE Append(hist, Snapshot(r.tree, leaf, r.index))
    /\ inserts' = inserts + 1
    /\ input' = NoInput
    /\ UNCHANGED <<impl, zeroPre, height, reinitialized>>
    /\ UNCHANGED <<hasherVars, mainVars, otherVars>>

\* tree.getRoot()
GetRoot ==
    /\ ret' = Outcome("getRoot", 0, FALSE, Undefined, getRoot(This), <<>>, <<>>)
    /\ input' = NoInput
    /\ UNCHANGED <<impl, zeroPre, height, leaves, zeros, layers, hist, inserts, reinitialized>>
    /\ UNCHANGED <<hasherVars, mainVars, otherVars>>

\* tree.getProof(leafIndex)
GetProof(leafIndex) ==
    /\ LET p == getProof(This, leafIndex)
       IN  /\ ret' = Outcome("getProof", leafIndex, p.threw, Undefined, p.root,
                              p.pathElements, p.pathIndices)
           /\ height' = p.tree.height
           /\ leaves' = p.tree.leaves
           /\ zeros' = p.tree.zeros
           /\ layers' = p.tree.layers
    /\ input' = NoInput
    /\ UNCHANGED <<impl, zeroPre, hist, inserts, reinitialized>>
    /\ UNCHANGED <<hasherVars, mainVars, otherVars>>

\* generateZKProof(note, merkleProof, recipient, "0", "0", note.amount.toString())
\* up to the call of the prover, merkleProof being the proof that getProof
\* just returned.
GenerateZKProof(note, recipient) ==
    /\ ret.op = "getProof" /\ ~ret.threw
    /\ input' = proofInput(note, ret, toString(recipient), toString(0), toString(0),
                           toString(note.amount))
    /\ UNCHANGED <<impl, zeroPre, height, leaves, zeros, layers, ret, hist, inserts,
                   reinitialized>>
    /\ UNCHANGED <<hasherVars, mainVars, otherVars>>

ProofArgs == (0 - 1)..Count(This)

\* The note and the recipient address of the generateZKProof calls.
ProofNotes ==
    {createDepositNote(1, [stream |-> [i \in 0..(2 * RANDOM_BYTES - 1) |-> i % 4],
                           cursor |-> 0]).note}
Addresses == {160}

Next ==
    \/ Initialize
    \/ \E leaf \in Leaves : Insert(leaf)
    \/ GetRoot
    \/ \E leafIndex \in ProofArgs : GetProof(leafIndex)
    \/ \E note \in ProofNotes, recipient \in Addresses : GenerateZKProof(note, recipient)

Spec == Init /\ [][Next]_vars

\* The same tree and calls when some pair of leaf-level values hashes to the
\* field element 0.
InitZeroHash ==
    /\ impl \in Impls
    /\ zeroPre \in ZeroPreimages \ {NoPreimage}
    /\ height \in Heights
    /\ leaves = <<>>
    /\ zeros = <<>>
    /\ layers = <<>>
    /\ ret = Outcome("new", height, FALSE, Undefined, Undefined, <<>>, <<>>)
    /\ hist = <<>>
    /\ inserts = 0
    /\ reinitialized = FALSE
    /\ input = NoInput
    /\ HasherBuilt
    /\ MainNotRunning
    /\ OthersAtRest

SpecZeroHash == InitZeroHash /\ [][Next]_vars

\* ---------------------------------------------------------------- hasher
\* The functions that await initPoseidon() as their first step.
EntryPoints == {"initPoseidon", "poseidonHash", "createDepositNote", "initialize"}

\* initPoseidon() up to its await, called directly or as the first step of
\* entry: with poseidon set it returns; else it invokes buildPoseidon() and
\* waits for the instance that this invocation builds.
CallInitPoseidon(task, entry) ==
    /\ tasks[task].at = "idle"
    /\ IF poseidon # Undefined
       THEN /\ tasks' = [tasks EXCEPT ![task] =
                            [entry |-> entry, at |-> "returned", instance |-> Undefined]]
            /\ UNCHANGED builds
       ELSE /\ builds' = builds + 1
            /\ tasks' = [tasks EXCEPT ![task] =
                            [entry |-> entry, at |-> "await", instance |-> builds + 1]]
    /\ UNCHANGED <<poseidon, F, assigns>>
    /\ UNCHANGED <<treeVars, mainVars, otherVars>>

\* initPoseidon() after its await: poseidon = <the instance>; F = poseidon.F.
ResumeInitPoseidon(task) ==
    /\ tasks[task].at = "await"
    /\ poseidon' = tasks[task].instance
    /\ F' = tasks[task].instance
    /\ assigns' = assigns + 1
    /\ tasks' = [tasks EXCEPT ![task].at = "returned"]
    /\ UNCHANGED builds
    /\ UNCHANGED <<treeVars, mainVars, otherVars>>

\* A process in which nothing has called initPoseidon yet.
InitHasher ==
    /\ impl = "zkOnChainTest"
    /\ zeroPre = NoPreimage
    /\ height = MaxHeight
    /\ leaves = <<>>
    /\ zeros = <<>>
    /\ layers = <<>>
    /\ ret = Outcome("new", height, FALSE, Undefined, Undefined, <<>>, <<>>)
    /\ hist = <<>>
    /\ inserts = 0
    /\ reinitialized = FALSE
    /\ input = NoInput
    /\ poseidon = Undefined /\ F = Undefined /\ builds = 0 /\ assigns = 0
    /\ tasks = [task \in Tasks |-> Idle]
    /\ MainNotRunning
    /\ OthersAtRest

NextHasher ==
    \/ \E task \in Tasks, entry \in EntryPoints : CallInitPoseidon(task, entry)
    \/ \E task \in Tasks : ResumeInitPoseidon(task)

SpecHasher == InitHasher /\ [][NextHasher]_vars

\* ------------------------------------------------------------------ main
\* main() of zkOnChainTest.ts and runLocalSimulation() of part_000, from the
\* start to the input of the prover.  pc is the step that comes next.
Amounts == 1..MaxAmount

\* await initPoseidon(): the only caller, so the hasher is built once.
MainInitPoseidon ==
    /\ pc = "initPoseidon"
    /\ poseidon' = 1 /\ F' = 1 /\ builds' = builds + 1 /\ assigns' = assigns + 1
    /\ pc' = "createDepositNote"
    /\ UNCHANGED <<treeVars, tasks, depositNote, mainLeafIndex, entropy>>
    /\ UNCHANGED otherVars

\* const note = await createDepositNote(depositAmount)
MainCreateDepositNote(amount) ==
    /\ pc = "createDepositNote"
    /\ LET r == createDepositNote(amount, entropy)
       IN  /\ depositNote' = r.note
           /\ entropy' = r.entropy
    /\ ret' = Outcome("createDepositNote", amount, FALSE, Undefined, Undefined, <<>>, <<>>)
    /\ pc' = "initialize"
    /\ UNCHANGED <<impl, zeroPre, height, leaves, zeros, layers, hist, inserts,
                   reinitialized, input, hasherVars, mainLeafIndex>>
    /\ UNCHANGED otherVars

\* const tree = new PoseidonMerkleTree(MERKLE_TREE_HEIGHT); await tree.initialize()
MainInitialize ==
    /\ pc = "initialize"
    /\ LET t == initialize(NewTree(impl, MERKLE_TREE_HEIGHT))
       IN  /\ height' = t.height
           /\ leaves' = t.leaves
           /\ zeros' = t.zeros
           /\ layers' = t.layers
    /\ ret' = Outcome("initialize", 0, FALSE, Undefined, Undefined, <<>>, <<>>)
    /\ pc' = "insert"
    /\ UNCHANGED <<impl, zeroPre, hist, inserts, reinitialized, input, hasherVars,
                   depositNote, mainLeafIndex, entropy>>
    /\ UNCHANGED otherVars

\* const leafIndex = await tree.insert(note.commitment)
MainInsert ==
    /\ pc = "insert"
    /\ LET r == insert(This, depositNote.commitment)
       IN  /\ leaves' = r.tree.leaves
           /\ zeros' = r.tree.zeros
           /\ layers' = r.tree.layers
           /\ ret' = Outcome("insert", depositNote.commitment, r.threw, r.index,
                              Undefined, <<>>, <<>>)
           /\ mainLeafIndex' = r.index
    /\ inserts' = inserts + 1
    /\ pc' = "leafIndex"
    /\ UNCHANGED <<impl, zeroPre, height, hist, reinitialized, input, hasherVars,
                   depositNote, entropy>>
    /\ UNCHANGED otherVars

\* note.leafIndex = leafIndex
MainSetLeafIndex ==
    /\ pc = "leafIndex"
    /\ depositNote' = [depositNote EXCEPT !.leafIndex = mainLeafIndex]
    /\ pc' = "getRoot"
    /\ UNCHANGED <<treeVars, hasherVars, mainLeafIndex, entropy>>
    /\ UNCHANGED otherVars

\* const root = tree.getRoot()
MainGetRoot ==
    /\ pc = "getRoot"
    /\ ret' = Outcome("getRoot", 0, FALSE, Undefined, getRoot(This), <<>>, <<>>)
    /\ pc' = "getProof"
    /\ UNCHANGED <<impl, zeroPre, height, leaves, zeros, layers, hist, inserts,
                   reinitialized, input, hasherVars, depositNote, mainLeafIndex, entropy>>
    /\ UNCHANGED otherVars

\* const merkleProof = tree.getProof(leafIndex)
MainGetProof ==
    /\ pc = "getProof"
    /\ LET p == getProof(This, mainLeafIndex)
       IN  /\ ret' = Outcome("getProof", mainLeafIndex, p.threw, Undefined, p.root,
                              p.pathElements, p.pathIndices)
           /\ height' = p.tree.height
           /\ leaves' = p.tree.leaves
           /\ zeros' = p.tree.zeros
           /\ layers' = p.tree.layers
    /\ pc' = "generateZKProof"
    /\ UNCHANGED <<impl, zeroPre, hist, inserts, reinitialized, input, hasherVars,
                   depositNote, mainLeafIndex, entropy>>
    /\ UNCHANGED otherVars

\* generateZKProof(note, merkleProof, recipientBigInt, "0", "0",
\* note.amount.toString()) up to the call of the prover.
MainGenerateZKProof(recipient) ==
    /\ pc = "generateZKProof"
    /\ input' = proofInput(depositNote, ret, toString(recipient), toString(0),
                           toString(0), toString(depositNote.amount))
    /\ pc' = "fullProve"
    /\ UNCHANGED <<impl, zeroPre, height, leaves, zeros, layers, ret, hist, inserts,
                   reinitialized, hasherVars, depositNote, mainLeafIndex, entropy>>
    /\ UNCHANGED otherVars

\* The process at the start of main(): nothing built, no tree, no note; the
\* random source holds any bytes.
InitMain ==
    /\ impl = "zkOnChainTest"
    /\ zeroPre = NoPreimage
    /\ height = MERKLE_TREE_HEIGHT
    /\ leaves = <<>>
    /\ zeros = <<>>
    /\ layers = <<>>
    /\ ret = Outcome("new", height, FALSE, Undefined, Undefined, <<>>, <<>>)
    /\ hist = <<>>
    /\ inserts = 0
    /\ reinitialized = FALSE
    /\ input = NoInput
    /\ poseidon = Undefined /\ F = Undefined /\ builds = 0 /\ assigns = 0
    /\ tasks = [task \in Tasks |-> Idle]
    /\ pc = "initPoseidon" /\ depositNote = NoNote /\ mainLeafIndex = Undefined
    /\ entropy \in [stream : Streams, cursor : {0}]
    /\ OthersAtRest

NextMain ==
    \/ MainInitPoseidon
    \/ \E amount \in Amounts : MainCreateDepositNote(amount)
    \/ MainInitialize
    \/ MainInsert
    \/ MainSetLeafIndex
    \/ MainGetRoot
    \/ MainGetProof
    \/ \E recipient \in Addresses : MainGenerateZKProof(recipient)

SpecMain == InitMain /\ [][NextMain]_vars

\* ------------------------------------------------------------- two trees
\* Two tree objects of the same height driven by the same sequence of
\* calls: this tree and twin.tree.  twin.ret is the outcome of the call on
\* the second tree.

\* await tree.initialize() on both trees
TwinInitialize ==
    LET t == initialize(This)
        u == initialize(twin.tree)
        outcome == Outcome("initialize", 0, FALSE, Undefined, Undefined, <<>>, <<>>)
    IN  /\ zeros' = t.zeros
        /\ layers' = t.layers
        /\ ret' = outcome
        /\ twin' = [tree |-> u, ret |-> outcome]
        /\ reinitialized' = (reinitialized \/ Count(This) > 0 \/ Length(leaves) > 0)
        /\ hist' = IF reinitialized' THEN <<>> ELSE hist
        /\ input' = NoInput
        /\ UNCHANGED <<impl, zeroPre, height, leaves, inserts>>
        /\ UNCHANGED <<hasherVars, mainVars, asyncVars, relayVars>>

\* await tree.insert(leaf) on this tree and await tree.insert(twinLeaf) on
\* the second one, each run to completion
TwinInsert(leaf, twinLeaf) ==
    /\ inserts < MaxInserts
    /\ LET r == insert(This, leaf)
           u == insert(twin.tree, twinLeaf)
       IN  /\ leaves' = r.tree.leaves
           /\ zeros' = r.tree.zeros
           /\ layers' = r.tree.layers
           /\ ret' = Outcome("insert", leaf, r.threw, r.index, Undefined, <<>>, <<>>)
           /\ twin' = [tree |-> u.tree,
                       ret |-> Outcome("insert", twinLeaf, u.threw, u.index, Undefined,
                                       <<>>, <<>>)]
           /\ hist' = IF r.threw \/ reinitialized
                      THEN hist
                      ELSE Append(hist, Snapshot(r.tree, leaf, r.index))
    /\ inserts' = inserts + 1
    /\ input' = NoInput
    /\ UNCHANGED <<impl, zeroPre, height, reinitialized>>
    /\ UNCHANGED <<hasherVars, mainVars, asyncVars, relayVars>>

\* tree.getRoot() on both trees
TwinGetRoot ==
    /\ ret' = Outcome("getRoot", 0, FALSE, Undefined, getRoot(This), <<>>, <<>>)
    /\ twin' = [twin EXCEPT !.ret = Outcome("getRoot", 0, FALSE, Undefined,
                                            getRoot(twin.tree), <<>>, <<>>)]
    /\ input' = NoInput
    /\ UNCHANGED <<impl, zeroPre, height, leaves, zeros, layers, hist, inserts, reinitialized>>
    /\ UNCHANGED <<hasherVars, mainVars, asyncVars, relayVars>>

\* tree.getProof(leafIndex) on both trees
TwinGetProof(leafIndex) ==
    /\ LET p == getProof(This, leafIndex)
           q == getProof(twin.tree, leafIndex)
       IN  /\ ret' = Outcome("getProof", leafIndex, p.threw, Undefined, p.root,
                              p.pathElements, p.pathIndices)
           /\ twin' = [tree |-> q.tree,
                       ret |-> Outcome("getProof", leafIndex, q.threw, Undefined, q.root,
                                       q.pathElements, q.pathIndices)]
           /\ height' = p.tree.height
           /\ leaves' = p.tree.leaves
           /\ zeros' = p.tree.zeros
           /\ layers' = p.tree.layers
    /\ input' = NoInput
    /\ UNCHANGED <<impl, zeroPre, hist, inserts, reinitialized>>
    /\ UNCHANGED <<hasherVars, mainVars, asyncVars, relayVars>>

\* A fullZKSwap tree and a zkOnChainTest tree just constructed with the same
\* height.
InitTwin ==
    /\ impl = "fullZKSwap"
    /\ zeroPre = NoPreimage
    /\ height \in Heights
    /\ leaves = <<>>
    /\ zeros = <<>>
    /\ layers = <<>>
    /\ ret = Outcome("new", height, FALSE, Undefined, Undefined, <<>>, <<>>)
    /\ hist = <<>>
    /\ inserts = 0
    /\ reinitialized = FALSE
    /\ input = NoInput
    /\ HasherBuilt
    /\ MainNotRunning
    /\ twin = [tree |-> NewTree("zkOnChainTest", height), ret |-> ret]
    /\ NoCallsMade
    /\ NoRelayerFlow

\* Both trees receive the same calls with the same arguments.
NextTwin ==
    \/ TwinInitialize
    \/ \E leaf \in Leaves : TwinInsert(leaf, leaf)
    \/ TwinGetRoot
    \/ \E leafIndex \in ProofArgs : TwinGetProof(leafIndex)

SpecTwin == InitTwin /\ [][NextTwin]_vars

\* Two trees of the same class shape and height just constructed; some pair
\* of leaf-level values may hash to the field element 0.
InitBinding ==
    /\ impl \in Impls
    /\ zeroPre \in ZeroPreimages
    /\ height \in Heights
    /\ leaves = <<>>
    /\ zeros = <<>>
    /\ layers = <<>>
    /\ ret = Outcome("new", height, FALSE, Undefined, Undefined, <<>>, <<>>)
    /\ hist = <<>>
    /\ inserts = 0
    /\ reinitialized = FALSE
    /\ input = NoInput
    /\ HasherBuilt
    /\ MainNotRunning
    /\ twin = [tree |-> NewTree(impl, height), ret |-> ret]
    /\ NoCallsMade
    /\ NoRelayerFlow

\* Both trees receive the same calls; the inserted leaves may differ.
NextBinding ==
    \/ TwinInitialize
    \/ \E leaf \in Leaves, twinLeaf \in Leaves : TwinInsert(leaf, twinLeaf)
    \/ TwinGetRoot

SpecBinding == InitBinding /\ [][NextBinding]_vars

\* ------------------------------------------------- inserts between awaits
\* insert() and the initialize() it calls, cut at their awaits.  What runs
\* between two awaits runs without interruption; a suspended call resumes
\* at any later moment, in any order with the other suspended calls.
\* frames[c].at is where call c stands: "zeros" at the await in the zeros
\* loop of initialize(), "initialized" at await this.initialize(), "hash" at
\* the await in the level loop, "returned" or "threw" once it is settled.

\* insertSuspend taking the zero of the level above for a missing sibling.
insertSuspendZeroAbove(t, f) ==
    IF f.level < t.height
    THEN LET isLeft == f.currentIndex % 2 = 0
             siblingIndex == IF isLeft THEN f.currentIndex + 1 ELSE f.currentIndex - 1
             sibling == Nullish(At(t.layers[f.level], siblingIndex),
                                At(t.zeros, f.level + 1))
         IN  [tree |-> t,
              frame |-> [f EXCEPT !.at = "hash",
                                  !.left = IF isLeft THEN f.left ELSE sibling,
                                  !.right = IF isLeft THEN sibling ELSE f.left]]
    ELSE [tree |-> t,
          frame |-> [f EXCEPT !.at = "returned", !.level = Undefined,
                              !.currentIndex = Undefined, !.left = Undefined]]

\* The level loop of insert from its head to the await or to the return:
\* with a level left, the sibling is read and the operands are handed to
\* the hash.  On entry f.left holds currentValue.
insertSuspend(t, f) ==
    IF f.level < t.height
    THEN LET isLeft == f.currentIndex % 2 = 0
             siblingIndex == IF isLeft THEN f.currentIndex + 1 ELSE f.currentIndex - 1
             sibling == Nullish(At(t.layers[f.level], siblingIndex), At(t.zeros, f.level))
         IN  [tree |-> t,
              frame |-> [f EXCEPT !.at = "hash",
                                  !.left = IF isLeft THEN f.left ELSE sibling,
                                  !.right = IF isLeft THEN sibling ELSE f.left]]
    ELSE [tree |-> t,
          frame |-> [f EXCEPT !.at = "returned", !.level = Undefined,
                              !.currentIndex = Undefined, !.left = Undefined]]

\* A call that ends in a TypeError.
Thrown(t, f) ==
    [tree |-> t,
     frame |-> [f EXCEPT !.at = "threw", !.index = Undefined, !.level = Undefined,
                         !.currentIndex = Undefined, !.left = Undefined,
                         !.right = Undefined]]

\* insert after the await of the hash: currentValue = <the hash>;
\* currentIndex = Math.floor(currentIndex / 2);
\* this.layers[level + 1][currentIndex] = currentValue; then the next level.
insertResume(t, f) ==
    LET currentValue == poseidonHash(<<f.left, f.right>>)
        currentIndex == f.currentIndex \div 2
    IN  IF f.level + 1 \notin DOMAIN t.layers
        THEN Thrown(t, f)
        ELSE insertSuspend([t EXCEPT !.layers[f.level + 1] = Put(@, currentIndex, currentValue)],
                           [f EXCEPT !.level = f.level + 1, !.currentIndex = currentIndex,
                                     !.left = currentValue, !.right = Undefined])

\* insert from const index = ... to the first await of the level loop,
\* leaving the leaf to be stored after that await.
insertBodyStoresLater(t, f) ==
    LET index == nextIndex(t)
    IN  IF 0 \notin DOMAIN t.layers
        THEN Thrown(t, f)
        ELSE insertSuspend(t, [f EXCEPT !.index = index, !.level = 0,
                                        !.currentIndex = index, !.left = f.leaf])

\* insert from const index = ... to the first await of the level loop: the
\* index is read and the leaf is stored (pushed onto layers[0] in
\* fullZKSwap.ts; pushed onto leaves and written to layers[0][index] in
\* zkOnChainTest.ts, where the write throws when there is no layer 0).
insertBody(t, f) ==
    LET index == nextIndex(t)
        g == [f EXCEPT !.index = index, !.level = 0, !.currentIndex = index,
                       !.left = f.leaf]
    IN  IF t.impl = "fullZKSwap"
        THEN IF 0 \notin DOMAIN t.layers
             THEN Thrown(t, f)
             ELSE insertSuspend([t EXCEPT !.layers[0] = Push(@, f.leaf)], g)
        ELSE LET t1 == [t EXCEPT !.leaves = Push(@, f.leaf)]
             IN  IF 0 \notin DOMAIN t1.layers
                 THEN Thrown(t1, f)
                 ELSE insertSuspend([t1 EXCEPT !.layers[0] = Put(@, index, f.leaf)], g)

\* The zeros loop of initialize() from its head to the await or to the end
\* of initialize(): with a level left, prevZero is read and handed to the
\* hash; else this.layers is replaced by height + 1 empty layers.
initializeSuspend(t, f) ==
    IF f.i <= t.height
    THEN [tree |-> t, frame |-> [f EXCEPT !.at = "zeros", !.prevZero = At(t.zeros, f.i - 1)]]
    ELSE [tree |-> [t EXCEPT !.layers = [l \in 0..t.height |-> <<>>]],
          frame |-> [f EXCEPT !.at = "initialized", !.i = Undefined, !.prevZero = Undefined]]

\* initialize() after the await of the hash: this.zeros[i] = <the hash>.
initializeResume(t, f) ==
    initializeSuspend([t EXCEPT !.zeros = Put(@, f.i, poseidonHash(<<f.prevZero, f.prevZero>>))],
                      [f EXCEPT !.i = f.i + 1])

\* initialize() from its start: this.zeros = [ZERO_VALUE], then the loop.
initializeStart(t, f) ==
    initializeSuspend([t EXCEPT !.zeros = Put(<<>>, 0, ZERO_VALUE)],
                      [f EXCEPT !.lazy = TRUE, !.i = 1])

\* insert(leaf) from the call to its first await: the zkOnChainTest shape
\* calls initialize() when zeros is empty.
insertStart(t, f) ==
    IF t.impl # "fullZKSwap" /\ Length(t.zeros) = 0
    THEN initializeStart(t, f)
    ELSE insertBody(t, f)

\* The calls that are suspended at an await.
Suspended == {c \in Calls : frames[c].at \in {"zeros", "initialized", "hash"}}

\* The step of call c ends at r: the tree and the frame are stored.  The
\* outcome of a settled call stays in its frame.
Settle(c, r) ==
    /\ leaves' = r.tree.leaves
    /\ zeros' = r.tree.zeros
    /\ layers' = r.tree.layers
    /\ frames' = [frames EXCEPT ![c] = r.frame]

\* await tree.initialize() before the first insert is called.
AsyncInitialize ==
    /\ inserts = 0 /\ Length(zeros) = 0
    /\ LET t == initialize(This)
       IN  /\ zeros' = t.zeros
           /\ layers' = t.layers
    /\ ret' = Outcome("initialize", 0, FALSE, Undefined, Undefined, <<>>, <<>>)
    /\ UNCHANGED <<impl, zeroPre, height, leaves, hist, inserts, reinitialized, input>>
    /\ UNCHANGED <<hasherVars, mainVars, twin, asyncVars, relayVars>>

\* tree.insert(leaf) is called, its promise not awaited: the call runs to
\* its first await.
CallInsert(leaf) ==
    /\ inserts < MaxCalls + 1
    /\ Cardinality(Suspended) < MaxCalls
    /\ Settle(inserts + 1, insertStart(This, [NoCall EXCEPT !.leaf = leaf]))
    /\ inserts' = inserts + 1
    /\ overlapped' = (overlapped \/ Suspended # {})
    /\ UNCHANGED <<impl, zeroPre, height, ret, hist, reinitialized, input>>
    /\ UNCHANGED <<hasherVars, mainVars, twin, relayVars>>

\* The suspended call c resumes and runs to its next await or to its end.
Resume(c) ==
    /\ c \in Suspended
    /\ Settle(c, IF frames[c].at = "zeros" THEN initializeResume(This, frames[c])
                 ELSE IF frames[c].at = "initialized" THEN insertBody(This, frames[c])
                 ELSE insertResume(This, frames[c]))
    /\ UNCHANGED <<impl, zeroPre, height, ret, hist, inserts, reinitialized, input,
                   overlapped>>
    /\ UNCHANGED <<hasherVars, mainVars, twin, relayVars>>

\* A tree of height >= 0 just constructed.
InitAsync ==
    /\ impl \in Impls
    /\ zeroPre = NoPreimage
    /\ height \in 0..MaxHeight
    /\ leaves = <<>>
    /\ zeros = <<>>
    /\ layers = <<>>
    /\ ret = Outcome("new", height, FALSE, Undefined, Undefined, <<>>, <<>>)
    /\ hist = <<>>
    /\ inserts = 0
    /\ reinitialized = FALSE
    /\ input = NoInput
    /\ HasherBuilt
    /\ MainNotRunning
    /\ OthersAtRest

NextAsync ==
    \/ AsyncInitialize
    \/ \E leaf \in Leaves : CallInsert(leaf)
    \/ \E c \in Calls : Resume(c)

SpecAsync == InitAsync /\ [][NextAsync]_vars

\* ----------------------------------------------------------- relayer flow
\* main() of fullZKSwapWithRelayer.ts, one action per await.  pc is the
\* step that comes next.  The chain, the relayer service and the prover are
\* outside the program: each request to them ends in one of the outcomes
\* that the code distinguishes, chosen freely.

\* The private keys that the environment can hold.
Keys == 1..MaxKeys

\* privateKeyToAccount(key): the account of a key; different keys have
\* different addresses.
privateKeyToAccount(key) == [address |-> 100 + key, key |-> key]

\* const account = privateKeyToAccount(privateKey)
account == privateKeyToAccount(env.PRIVATE_KEY)

\* const ownerKey = process.env.OWNER_KEY || <the default key>;
\* const ownerAccount = privateKeyToAccount(ownerKey)
ownerAccount ==
    privateKeyToAccount(IF env.OWNER_KEY = Undefined THEN DEFAULT_OWNER_KEY
                        ELSE env.OWNER_KEY)

\* The addresses the relayer service can report and sign with; the service
\* runs with a key of its own, which is none of Keys.
RelayerAddresses == {170, 171}

\* The relayer address main falls back to when GET /info fails.
FallbackRelayerAddress == 170

\* One more step of the flow with its outcome.
Logged(step, outcome) == Append(trace, [step |-> step, outcome |-> outcome])

\* The process ends: process.exit(code), or main() returns or rejects and
\* main().catch(console.error) lets the process end with code 0.
Exit(code) == exitCode' = code /\ pc' = "exited"

\* const privateKey = process.env.PRIVATE_KEY; if (!privateKey) process.exit(1);
\* then the accounts and wallet clients are created.
RelayStart ==
    /\ pc = "start"
    /\ IF env.PRIVATE_KEY = Undefined
       THEN Exit(1)
       ELSE pc' = "health" /\ UNCHANGED exitCode
    /\ UNCHANGED <<treeVars, hasherVars, depositNote, mainLeafIndex, entropy, twin,
                   asyncVars, env, chain, trace, stealthAddress, relayerAddress>>

\* The health check that goes on whatever the relayer answered.
RelayHealthIgnoresFailure(outcome) ==
    /\ pc = "health"
    /\ trace' = Logged("health", outcome)
    /\ pc' = "initPoseidon" /\ UNCHANGED exitCode
    /\ UNCHANGED <<treeVars, hasherVars, depositNote, mainLeafIndex, entropy, twin,
                   asyncVars, env, chain, stealthAddress, relayerAddress>>

\* try { await fetch(RELAYER_URL/health); await healthRes.json() }
\* catch { process.exit(1) }: the status in the answer is printed only.
RelayHealth(outcome) ==
    /\ pc = "health"
    /\ trace' = Logged("health", outcome)
    /\ IF outcome = "failed"
       THEN Exit(1)
       ELSE pc' = "initPoseidon" /\ UNCHANGED exitCode
    /\ UNCHANGED <<treeVars, hasherVars, depositNote, mainLeafIndex, entropy, twin,
                   asyncVars, env, chain, stealthAddress, relayerAddress>>

\* await initPoseidon()
RelayInitPoseidon ==
    /\ pc = "initPoseidon"
    /\ poseidon' = 1 /\ F' = 1 /\ builds' = builds + 1 /\ assigns' = assigns + 1
    /\ pc' = "createDepositNote"
    /\ UNCHANGED <<treeVars, tasks, depositNote, mainLeafIndex, entropy, twin,
                   asyncVars, relayVars>>

\* const note = await createDepositNote(swapAmount)
RelayCreateDepositNote ==
    /\ pc = "createDepositNote"
    /\ LET r == createDepositNote(SWAP_AMOUNT, entropy)
       IN  /\ depositNote' = r.note
           /\ entropy' = r.entropy
    /\ ret' = Outcome("createDepositNote", SWAP_AMOUNT, FALSE, Undefined, Undefined, <<>>, <<>>)
    /\ trace' = Logged("createDepositNote", "ok")
    /\ pc' = "initialize"
    /\ UNCHANGED <<impl, zeroPre, height, leaves, zeros, layers, hist, inserts,
                   reinitialized, input, hasherVars, mainLeafIndex, twin, asyncVars,
                   env, chain, exitCode, stealthAddress, relayerAddress>>

\* const tree = new PoseidonMerkleTree(MERKLE_TREE_HEIGHT); await tree.initialize()
RelayInitialize ==
    /\ pc = "initialize"
    /\ LET t == initialize(NewTree(impl, MERKLE_TREE_HEIGHT))
       IN  /\ height' = t.height
           /\ leaves' = t.leaves
           /\ zeros' = t.zeros
           /\ layers' = t.layers
    /\ ret' = Outcome("initialize", 0, FALSE, Undefined, Undefined, <<>>, <<>>)
    /\ pc' = "insert"
    /\ UNCHANGED <<impl, zeroPre, hist, inserts, reinitialized, input, hasherVars,
                   depositNote, mainLeafIndex, entropy, twin, asyncVars, relayVars>>

\* await tree.insert(note.commitment)
RelayInsert ==
    /\ pc = "insert"
    /\ LET r == insert(This, depositNote.commitment)
       IN  /\ leaves' = r.tree.leaves
           /\ zeros' = r.tree.zeros
           /\ layers' = r.tree.layers
           /\ ret' = Outcome("insert", depositNote.commitment, r.threw, r.index,
                              Undefined, <<>>, <<>>)
    /\ inserts' = inserts + 1
    /\ trace' = Logged("insert", "ok")
    /\ pc' = "getProof"
    /\ UNCHANGED <<impl, zeroPre, height, hist, reinitialized, input, hasherVars,
                   depositNote, mainLeafIndex, entropy, twin, asyncVars,
                   env, chain, exitCode, stealthAddress, relayerAddress>>

\* const merkleProof = tree.getProof(0)
RelayGetProof ==
    /\ pc = "getProof"
    /\ LET p == getProof(This, 0)
       IN  /\ ret' = Outcome("getProof", 0, p.threw, Undefined, p.root,
                              p.pathElements, p.pathIndices)
           /\ height' = p.tree.height
           /\ leaves' = p.tree.leaves
           /\ zeros' = p.tree.zeros
           /\ layers' = p.tree.layers
    /\ trace' = Logged("getProof", "ok")
    /\ pc' = "addKnownRoot"
    /\ UNCHANGED <<impl, zeroPre, hist, inserts, reinitialized, input, hasherVars,
                   depositNote, mainLeafIndex, entropy, twin, asyncVars,
                   env, chain, exitCode, stealthAddress, relayerAddress>>

\* const addRootTx = await ownerWalletClient.writeContract({ functionName:
\* "addKnownRoot", args: [rootBytes] }): the owner account signs and sends
\* the transaction, or the call throws and main() rejects.
RelayAddKnownRoot(outcome) ==
    /\ pc = "addKnownRoot"
    /\ trace' = Logged("addKnownRoot", outcome)
    /\ IF outcome = "failed"
       THEN Exit(0) /\ UNCHANGED chain
       ELSE /\ chain' = Append(chain, [from |-> ownerAccount.address,
                                       client |-> "ownerWalletClient",
                                       functionName |-> "addKnownRoot",
                                       args |-> ret.root])
            /\ pc' = "receipt" /\ UNCHANGED exitCode
    /\ UNCHANGED <<treeVars, hasherVars, depositNote, mainLeafIndex, entropy, twin,
                   asyncVars, env, stealthAddress, relayerAddress>>

\* await publicClient.waitForTransactionReceipt({ hash: addRootTx,
\* confirmations: 2 }), then the pause of three seconds: the status of the
\* receipt is printed only.
RelayWaitForTransactionReceipt(outcome) ==
    /\ pc = "receipt"
    /\ trace' = Logged("receipt", outcome)
    /\ IF outcome = "failed"
       THEN Exit(0)
       ELSE pc' = "isKnownRoot" /\ UNCHANGED exitCode
    /\ UNCHANGED <<treeVars, hasherVars, depositNote, mainLeafIndex, entropy, twin,
                   asyncVars, env, chain, stealthAddress, relayerAddress>>

\* const isKnown = await publicClient.readContract({ functionName:
\* "isKnownRoot" }), printed only; then the stealth address is derived from
\* a fresh random field element.
RelayIsKnownRoot(outcome, address) ==
    /\ pc = "isKnownRoot"
    /\ trace' = Logged("isKnownRoot", outcome)
    /\ IF outcome = "failed"
       THEN Exit(0) /\ UNCHANGED stealthAddress
       ELSE /\ stealthAddress' = address
            /\ pc' = "info" /\ UNCHANGED exitCode
    /\ UNCHANGED <<treeVars, hasherVars, depositNote, mainLeafIndex, entropy, twin,
                   asyncVars, env, chain, relayerAddress>>

\* try { relayerAddress = (await (await fetch(RELAYER_URL/info)).json()).address }
\* catch { relayerAddress = <the fallback address> }
RelayInfo(outcome, address) ==
    /\ pc = "info"
    /\ trace' = Logged("info", outcome)
    /\ relayerAddress' = IF outcome = "failed" THEN FallbackRelayerAddress ELSE address
    /\ pc' = "fullProve"
    /\ UNCHANGED <<treeVars, hasherVars, depositNote, mainLeafIndex, entropy, twin,
                   asyncVars, env, chain, exitCode, stealthAddress>>

\* const input = {...}; await snarkjs.groth16.fullProve(input, ...)
RelayFullProve(outcome) ==
    /\ pc = "fullProve"
    /\ input' = proofInput(depositNote, ret, toString(stealthAddress),
                           toString(relayerAddress), toString(RELAYER_FEE_BPS),
                           toString(depositNote.amount))
    /\ trace' = Logged("fullProve", outcome)
    /\ IF outcome = "failed"
       THEN Exit(0)
       ELSE pc' = "relay" /\ UNCHANGED exitCode
    /\ UNCHANGED <<impl, zeroPre, height, leaves, zeros, layers, ret, hist, inserts,
                   reinitialized, hasherVars, depositNote, mainLeafIndex, entropy, twin,
                   asyncVars, env, chain, stealthAddress, relayerAddress>>

\* try { const result = await (await fetch(RELAYER_URL/relay, { method:
\* "POST", ... })).json(); if (!result.success) process.exit(1); ... }
\* catch { console.error("Relay failed") }.  A relayer that answers success
\* has sent the swap transaction from its own account.
RelayPost(outcome, signer) ==
    /\ pc = "relay"
    /\ trace' = Logged("relay", outcome)
    /\ IF outcome = "failed" THEN Exit(0) /\ UNCHANGED chain
       ELSE IF outcome = "refused" THEN Exit(1) /\ UNCHANGED chain
       ELSE /\ chain' = Append(chain, [from |-> signer, client |-> "relayer",
                                       functionName |-> "swap",
                                       args |-> input.nullifierHash])
            /\ pc' = "verify" /\ UNCHANGED exitCode
    /\ UNCHANGED <<treeVars, hasherVars, depositNote, mainLeafIndex, entropy, twin,
                   asyncVars, env, stealthAddress, relayerAddress>>

\* Step 7, inside the same try: the balance of the stealth address, isSpent
\* and the receipt of the swap are read and printed; an error is caught
\* and printed.  Then main() returns.
RelayVerify(outcome) ==
    /\ pc = "verify"
    /\ trace' = Logged("verify", outcome)
    /\ Exit(0)
    /\ UNCHANGED <<treeVars, hasherVars, depositNote, mainLeafIndex, entropy, twin,
                   asyncVars, env, chain, stealthAddress, relayerAddress>>

\* The random bytes of the run.
RelayEntropy == [stream |-> [i \in 0..(2 * RANDOM_BYTES - 1) |-> (i + 1) % 4], cursor |-> 0]

\* The process at the start of main(): PRIVATE_KEY and OWNER_KEY are set to
\* some key or not set.
InitRelayer ==
    /\ impl = "fullZKSwap"
    /\ zeroPre = NoPreimage
    /\ height = MERKLE_TREE_HEIGHT
    /\ leaves = <<>>
    /\ zeros = <<>>
    /\ layers = <<>>
    /\ ret = Outcome("new", height, FALSE, Undefined, Undefined, <<>>, <<>>)
    /\ hist = <<>>
    /\ inserts = 0
    /\ reinitialized = FALSE
    /\ input = NoInput
    /\ poseidon = Undefined /\ F = Undefined /\ builds = 0 /\ assigns = 0
    /\ tasks = [task \in Tasks |-> Idle]
    /\ pc = "start" /\ depositNote = NoNote /\ mainLeafIndex = Undefined
    /\ entropy = RelayEntropy
    /\ twin = NoTwin
    /\ NoCallsMade
    /\ env \in [PRIVATE_KEY : Keys \cup {Undefined}, OWNER_KEY : Keys \cup {Undefined}]
    /\ chain = <<>>
    /\ trace = <<>>
    /\ exitCode = Undefined
    /\ stealthAddress = Undefined
    /\ relayerAddress = Undefined

\* What a request can end in: an answer, an exception, and for POST /relay
\* an answer with success = false.
Outcomes == {"ok", "failed"}

NextRelayer ==
    \/ RelayStart
    \/ \E outcome \in Outcomes : RelayHealth(outcome)
    \/ RelayInitPoseidon
    \/ RelayCreateDepositNote
    \/ RelayInitialize
    \/ RelayInsert
    \/ RelayGetProof
    \/ \E outcome \in Outcomes : RelayAddKnownRoot(outcome)
    \/ \E outcome \in Outcomes : RelayWaitForTransactionReceipt(outcome)
    \/ \E outcome \in Outcomes, address \in Addresses : RelayIsKnownRoot(outcome, address)
    \/ \E outcome \in Outcomes, address \in RelayerAddresses : RelayInfo(outcome, address)
    \/ \E outcome \in Outcomes : RelayFullProve(outcome)
    \/ \E outcome \in Outcomes \cup {"refused"}, signer \in RelayerAddresses :
          RelayPost(outcome, signer)
    \/ \E outcome \in Outcomes : RelayVerify(outcome)

SpecRelayer == InitRelayer /\ [][NextRelayer]_vars

\* ================================================================ claims
\* 2^height leaves fit a tree.
Capacity(h) == IF h >= 0 THEN 2 ^ h ELSE 0

\* zeros has been built.
Initialized == Length(zeros) > 0

\* The tree after the step.
ThisNext == [impl |-> impl', height |-> height', leaves |-> leaves',
             zeros |-> zeros', layers |-> layers']

\* The step is an insert call.
InsertStep == inserts' = inserts + 1

\* The verifier's fold of a proof: the running value goes left where
\* pathIndices is 0 and right where it is 1.
RECURSIVE foldLoop(_, _, _)
foldLoop(value, p, level) ==
    IF level < Length(p.pathElements)
    THEN foldLoop(IF p.pathIndices[level] = 0
                  THEN poseidonHash(<<value, p.pathElements[level]>>)
                  ELSE poseidonHash(<<p.pathElements[level], value>>),
                  p, level + 1)
    ELSE value

FoldProof(leafValue, p) == foldLoop(leafValue, p, 0)

C2_InsertOnFullTreeRejected ==
    [][(InsertStep /\ height >= 1 /\ Initialized /\ ~reinitialized
           /\ Count(This) = Capacity(height))
       => ret'.threw]_vars

\* C3: an insert call on a tree that holds 2^height leaves leaves the count,
\* the root, every stored node and every proof as they were.
C3_InsertOnFullTreeChangesNothing ==
    [][(InsertStep /\ height >= 1 /\ Initialized /\ ~reinitialized
           /\ Count(This) = Capacity(height))
       => /\ Count(ThisNext) = Count(This)
          /\ getRoot(ThisNext) = getRoot(This)
          /\ layers' = layers
          /\ leaves' = leaves
          /\ \A i \in 0..(Count(This) - 1) : getProof(ThisNext, i) = getProof(This, i)]_vars

\* C4: a tree of height >= 1 never counts more than 2^height leaves and never
\* stores a node at level l with an index of 2^(height - l) or more.
C4_NothingBeyondCapacity ==
    (height >= 1 /\ Initialized)
    => /\ Count(This) <= Capacity(height)
       /\ \A l \in DOMAIN layers : \A j \in DOMAIN layers[l] : j < 2 ^ (height - l)

\* C5: getProof(index) on an initialized tree of height >= 1 throws when
\* index < 0, index >= count or index >= 2^height.
C5_ProofIndexOutOfRange ==
    (height >= 1 /\ Initialized /\ ret.op = "getProof"
        /\ (ret.arg < 0 \/ ret.arg >= Count(This) \/ ret.arg >= Capacity(height)))
    => ret.threw

\* C6: on a tree constructed with height < 1 every call fails: initialize
\* throws, and no insert, getRoot or getProof returns.
C6_InvalidHeightUnusable ==
    (height < 1 /\ ret.op \in {"initialize", "insert", "getRoot", "getProof"})
    => ret.threw

\* C7: on a tree of height >= 1 on which insert was never called, getRoot()
\* is zeros[height], and that is what a getRoot call returned.
C7_EmptyTreeRoot ==
    (height >= 1 /\ inserts = 0)
    => /\ getRoot(This) = At(zeros, height)
       /\ (ret.op = "getRoot" => ret.root = At(zeros, height))

\* C7 witness: getRoot returned zeros[height] on an initialized empty tree.
C7_Witness ==
    /\ height >= 1 /\ inserts = 0 /\ Initialized
    /\ ret.op = "getRoot" /\ ret.root = zeros[height]

\* The leaves of the insert calls that returned, in order.
Recorded == [k \in 1..Len(hist) |-> hist[k].leaf]

\* A tree after its first k leaves of ls were inserted in order.
RECURSIVE replay(_, _, _)
replay(t, ls, k) == IF k = 0 THEN t ELSE insert(replay(t, ls, k - 1), ls[k]).tree

\* C8: a freshly constructed and initialized tree of the same height that is
\* fed the recorded leaves returns, at every prefix, the index, the root and
\* the proofs the original tree gave at that prefix, and ends with the
\* original's current root.
C8_ReplayReproduces ==
    ~reinitialized
    => /\ \A k \in 1..Len(hist) :
             LET r == insert(replay(initialize(NewTree(impl, height)), Recorded, k - 1),
                             hist[k].leaf)
             IN  /\ ~r.threw
                 /\ r.index = hist[k].index
                 /\ getRoot(r.tree) = hist[k].root
                 /\ Count(r.tree) = hist[k].count
                 /\ \A i \in 0..(k - 1) : getProof(r.tree, i) = hist[k].proofs[i]
       /\ (Len(hist) > 0
           => getRoot(replay(initialize(NewTree(impl, height)), Recorded, Len(hist)))
                = getRoot(This))

\* C8 witness: a tree that took two leaves, with reads in between, whose
\* recorded roots differ.
C8_Witness ==
    /\ ~reinitialized /\ height >= 1 /\ Len(hist) >= 2
    /\ hist[1].root # hist[2].root
    /\ ret.op = "getProof" /\ ~ret.threw

\* The three-leaf scenario of height 2, with z the zero that stands beside
\* L2: count is 3, the root is H(H(L0,L1), H(L2, z)), and getProof(1) is
\* { pathElements: [L0, H(L2, z)], pathIndices: [1, 0] }, as a call returned it.
ThreeLeafScenario(z) ==
    (height = 2 /\ Initialized /\ ~reinitialized /\ Len(hist) = 3 /\ Count(This) = 3)
    => LET L0 == hist[1].leaf
           L1 == hist[2].leaf
           L2 == hist[3].leaf
           right == poseidonHash(<<L2, z>>)
           root == poseidonHash(<<poseidonHash(<<L0, L1>>), right>>)
           p == getProof(This, 1)
       IN  /\ getRoot(This) = root
           /\ ~p.threw
           /\ p.root = root
           /\ p.pathElements = Push(Push(<<>>, L0), right)
           /\ p.pathIndices = Push(Push(<<>>, 1), 0)
           /\ (ret.op = "getProof" /\ ret.arg = 1)
              => (ret.pathElements = p.pathElements /\ ret.pathIndices = p.pathIndices)

RECURSIVE hashUp(_)
hashUp(row) ==
    IF Len(row) = 1 THEN row[1]
    ELSE hashUp([j \in 1..(Len(row) \div 2) |-> poseidonHash(<<row[2 * j - 1], row[2 * j]>>)])

\* The state part of C10.
ZerosBuilt ==
    (Initialized /\ height >= 0)
    => /\ DOMAIN zeros = 0..height
       /\ zeros[0] = ZERO_VALUE
       /\ \A i \in 1..height : zeros[i] = poseidonHash(<<zeros[i - 1], zeros[i - 1]>>)
       /\ zeros[height] = hashUp([j \in 1..(2 ^ height) |-> ZERO_VALUE])

\* C10: once built, zeros has height + 1 entries, zeros[0] is ZERO_VALUE, each
\* entry is the hash of the one below paired with itself, zeros[height] is
\* the root of a complete tree of 2^height copies of ZERO_VALUE, and no call
\* changes an entry.
C10_ZerosBuiltAndFrozen ==
    /\ []ZerosBuilt
    /\ [][Initialized => zeros' = zeros]_vars

\* C10 witness: zeros of a tree of height 2 after an insert returned.
C10_Witness ==
    /\ height = 2 /\ Initialized /\ ret.op = "insert" /\ ~ret.threw
    /\ DOMAIN zeros = 0..2

\* The indices at which layers[0] holds a leaf.
StoredLeafIndices == IF 0 \in DOMAIN layers THEN DOMAIN layers[0] ELSE {}

\* An insert that returned took the index Count(This) of the tree before it,
\* stored its leaf there and left the leaves stored before where they were.
InsertTakesNextIndex ==
    (InsertStep /\ ~ret'.threw)
    => /\ ret'.index = Count(This)
       /\ At(layers'[0], ret'.index) = ret'.arg
       /\ \A j \in StoredLeafIndices : At(layers'[0], j) = At(layers[0], j)

\* C11: in every reachable state of a tree of height >= 1 the stored leaf
\* indices are exactly 0..count-1 with no gaps, the k-th insert that returned
\* having taken index k-1.
C11_LeafIndicesContiguous ==
    height >= 1 => StoredLeafIndices = 0..(Count(This) - 1)

\* C11 on a tree of a height >= 0 that was initialized before it held a leaf
\* and not again: the recorded inserts have the indices 0, 1, 2, ... and their
\* leaves are still where they were stored.
C11_OnceInitialized ==
    /\ []((height >= 0 /\ ~reinitialized)
          => /\ StoredLeafIndices = 0..(Count(This) - 1)
             /\ Len(hist) = Count(This)
             /\ \A k \in 1..Len(hist) :
                   /\ hist[k].index = k - 1
                   /\ At(layers[0], k - 1) = hist[k].leaf)
    /\ [][(height >= 0 /\ ~reinitialized') => InsertTakesNextIndex]_vars

\* Bit l of the index i.
Bit(i, l) == (i \div (2 ^ l)) % 2

\* The node j of level l: the stored node if there is one, else zeros[l].
NodeOrZero(l, j) == Nullish(At(layers[l], j), At(zeros, l))

\* The neighbour at level l of the node on the path of leaf i.
Neighbour(i, l) ==
    IF Bit(i, l) = 0 THEN (i \div (2 ^ l)) + 1 ELSE (i \div (2 ^ l)) - 1

\* The proof p is the one of leaf i: bit l of i and the neighbouring node at
\* every level l below the root.
ProofOfLeaf(p, i) ==
    /\ ~p.threw
    /\ \A l \in 0..(height - 1) :
          /\ At(p.pathIndices, l) = Bit(i, l)
          /\ At(p.pathElements, l) = NodeOrZero(l, Neighbour(i, l))

\* C12: on an initialized tree of height >= 1, for every inserted index i and
\* every level l < height, getProof(i).pathIndices[l] is bit l of i and
\* getProof(i).pathElements[l] is the node next to floor(i / 2^l) at level l,
\* the stored one if present and zeros[l] otherwise.
C12_ProofShape ==
    (height >= 1 /\ Initialized)
    => /\ \A i \in 0..(Count(This) - 1) : ProofOfLeaf(getProof(This, i), i)
       /\ (ret.op = "getProof" /\ ret.arg \in 0..(Count(This) - 1))
          => ProofOfLeaf(ret, ret.arg)

\* C12 witness: getProof(2) returned on a tree of height 2 that holds three
\* leaves: a left child with no stored neighbour, under a right child with a
\* stored one.
C12_Witness ==
    /\ height = 2 /\ Count(This) = 3 /\ ~reinitialized
    /\ ret.op = "getProof" /\ ret.arg = 2 /\ ~ret.threw
    /\ At(ret.pathIndices, 0) = 0 /\ At(ret.pathIndices, 1) = 1
    /\ At(ret.pathElements, 0) = At(zeros, 0)
    /\ At(ret.pathElements, 1) = At(layers[1], 0)
    /\ At(layers[1], 0) # At(zeros, 1)

\* BigInt(s) of a decimal string, as the prover reads a field of its input.
RECURSIVE BigInt(_)
BigInt(s) ==
    IF Len(s) = 1 THEN s[1]
    ELSE 10 * BigInt(SubSeq(s, 1, Len(s) - 1)) + s[Len(s)]

\* generateZKProof was the last call and built its input.
HasInput == "merkleRoot" \in DOMAIN input

\* The proof p, taken in the current state, has height entries in each of
\* its arrays, sides 0 or 1, and the current root.
WellFormedProof(p) ==
    /\ DOMAIN p.pathElements = 0..(height - 1)
    /\ DOMAIN p.pathIndices = 0..(height - 1)
    /\ \A l \in DOMAIN p.pathIndices : p.pathIndices[l] \in {0, 1}
    /\ p.root = getRoot(This)

\* C13: on a tree of height >= 1 every proof that getProof returns, for any
\* argument, has exactly height pathElements and height pathIndices, every
\* pathIndices entry is 0 or 1, and its root is getRoot() of the same state;
\* the circuit input built from a returned proof carries that root as
\* merkleRoot and those height-long arrays, the field values in decimal.
C13_ProofAndInputShape ==
    height >= 1
    => /\ \A i \in ProofArgs :
             LET p == getProof(This, i) IN ~p.threw => WellFormedProof(p)
       /\ (ret.op = "getProof" /\ ~ret.threw) => WellFormedProof(ret)
       /\ HasInput
          => /\ BigInt(input.merkleRoot) = ret.root
             /\ input.merkleRoot = toString(getRoot(This))
             /\ input.pathIndices = ret.pathIndices
             /\ DOMAIN input.pathElements = 0..(height - 1)
             /\ \A l \in 0..(height - 1) :
                   BigInt(input.pathElements[l]) = ret.pathElements[l]

\* C13 witness: the input built from getProof(2) on a tree of height 2 that
\* holds three leaves; its root has more than one decimal digit.
C13_Witness ==
    /\ height = 2 /\ Count(This) = 3 /\ ~reinitialized
    /\ HasInput /\ ret.arg = 2
    /\ Len(input.merkleRoot) >= 2
    /\ BigInt(input.merkleRoot) = getRoot(This)
    /\ DOMAIN input.pathElements = 0..1

\* C14: on an initialized tree of height >= 1, getRoot() is the stored node
\* layers[height][0] whenever one is stored, whatever field element it is
\* (0 included), and zeros[height] only when none is stored.
C14_GetRootReturnsStoredRoot ==
    (height >= 1 /\ Initialized)
    => LET expected == IF StoredRoot(This) # Undefined
                       THEN StoredRoot(This)
                       ELSE At(zeros, height)
       IN  /\ getRoot(This) = expected
           /\ ret.op = "getRoot" => ret.root = expected

\* The step is a getRoot or getProof call.
ReadStep == ret'.op \in {"getRoot", "getProof"} /\ input' = NoInput

\* C15: a getRoot or getProof call leaves height, zeros, the leaf count and
\* every stored node as they were, and a call repeated with the same argument
\* in the same state returns what the call before it returned.
C15_ReadsArePure ==
    [][ReadStep
       => /\ height' = height
          /\ zeros' = zeros
          /\ Count(ThisNext) = Count(This)
          /\ leaves' = leaves
          /\ layers' = layers
          /\ (ret.op = ret'.op /\ ret.arg = ret'.arg) => ret' = ret]_vars

\* C15 witness: getProof(0) returned on a tree of height 2 that holds one
\* leaf; the siblings it read are not stored and still are not.
C15_Witness ==
    /\ height = 2 /\ Count(This) = 1 /\ ~reinitialized
    /\ ret.op = "getProof" /\ ret.arg = 0 /\ ~ret.threw
    /\ At(ret.pathElements, 0) = At(zeros, 0)
    /\ At(ret.pathElements, 1) = At(zeros, 1)
    /\ DOMAIN layers[0] = {0} /\ DOMAIN layers[1] = {0}

\* The step is an initialize() call on a tree of height >= 1 that holds a
\* leaf.
ReinitializeStep ==
    /\ ret'.op = "initialize" /\ input' = NoInput
    /\ height >= 1 /\ Initialized /\ Count(This) >= 1

\* C16: initialize() called again on a tree that holds N >= 1 leaves leaves
\* the count, the stored nodes, zeros, getRoot() and every getProof(i) as
\* they were.
C16_InitializeIdempotent ==
    [][ReinitializeStep
       => /\ Count(ThisNext) = Count(This)
          /\ layers' = layers
          /\ zeros' = zeros
          /\ getRoot(ThisNext) = getRoot(This)
          /\ \A i \in 0..(Count(This) - 1) :
                LET p == getProof(This, i)
                    q == getProof(ThisNext, i)
                IN  /\ q.threw = p.threw /\ q.root = p.root
                    /\ q.pathElements = p.pathElements
                    /\ q.pathIndices = p.pathIndices]_vars

\* C17: over every interleaving of the initPoseidon calls of a process,
\* buildPoseidon is invoked at most once and poseidon is assigned at most
\* once.
C17_HasherBuiltOnce == builds <= 1 /\ assigns <= 1

\* main holds a note.
HasNote == "commitment" \in DOMAIN depositNote

\* C18: the note that createDepositNote(amount) returns has
\* commitment = hash([nullifier, secret, amount]),
\* nullifierHash = hash([nullifier]) and the argument as its amount.
C18_NoteDerivation ==
    HasNote
    => /\ depositNote.commitment =
              poseidonHash(<<depositNote.nullifier, depositNote.secret, depositNote.amount>>)
       /\ depositNote.nullifierHash = poseidonHash(<<depositNote.nullifier>>)
       /\ ret.op = "createDepositNote" => depositNote.amount = ret.arg

\* C18 witness: createDepositNote(2) just returned a note whose secret and
\* nullifier differ.
C18_Witness ==
    /\ HasNote /\ ret.op = "createDepositNote" /\ ret.arg = 2
    /\ depositNote.amount = 2
    /\ depositNote.secret # depositNote.nullifier

\* The number that the RANDOM_BYTES bytes of the stream from position from
\* on spell in base 2^BYTE_BITS, the first byte weighing most.
RECURSIVE bigEndianSum(_, _, _)
bigEndianSum(stream, from, i) ==
    IF i < RANDOM_BYTES
    THEN stream[from + i] * ((2 ^ BYTE_BITS) ^ (RANDOM_BYTES - 1 - i))
         + bigEndianSum(stream, from, i + 1)
    ELSE 0

BigEndianNumber(stream, from) == bigEndianSum(stream, from, 0)

\* C19: the secret is the big-endian number of the first RANDOM_BYTES bytes
\* that the random source handed out, modulo FIELD_SIZE, and the nullifier is
\* that of the next RANDOM_BYTES bytes: both are in [0, FIELD_SIZE) and no
\* byte of the source is used by both.
C19_RandomFieldElements ==
    HasNote
    => /\ depositNote.secret = BigEndianNumber(entropy.stream, 0) % FIELD_SIZE
       /\ depositNote.nullifier =
              BigEndianNumber(entropy.stream, RANDOM_BYTES) % FIELD_SIZE
       /\ depositNote.secret \in 0..(FIELD_SIZE - 1)
       /\ depositNote.nullifier \in 0..(FIELD_SIZE - 1)
       /\ entropy.cursor = 2 * RANDOM_BYTES

\* C19 witness: a note whose secret comes from a buffer that spells a number
\* of at least twice FIELD_SIZE with two different bytes, and whose nullifier
\* is another field element.
C19_Witness ==
    /\ HasNote /\ pc = "initialize"
    /\ BigEndianNumber(entropy.stream, 0) >= 2 * FIELD_SIZE
    /\ entropy.stream[0] # entropy.stream[1]
    /\ depositNote.secret # depositNote.nullifier

\* C20: note.leafIndex is unset until the insert of the note's commitment
\* has returned, is then assigned once, the index that insert returned, and
\* from then on layers[0][note.leafIndex] is the commitment; no other field
\* of the note is written after createDepositNote returned.
C20_LeafIndexSetOnce ==
    /\ [](HasNote /\ depositNote.leafIndex # Undefined
          => /\ ret.op # "createDepositNote"
             /\ depositNote.leafIndex = mainLeafIndex
             /\ At(layers[0], depositNote.leafIndex) = depositNote.commitment)
    /\ [][HasNote
          => /\ depositNote'.secret = depositNote.secret
             /\ depositNote'.nullifier = depositNote.nullifier
             /\ depositNote'.amount = depositNote.amount
             /\ depositNote'.commitment = depositNote.commitment
             /\ depositNote'.nullifierHash = depositNote.nullifierHash
             /\ depositNote'.leafIndex # depositNote.leafIndex
                => /\ depositNote.leafIndex = Undefined
                   /\ ret.op = "insert" /\ ~ret.threw
                   /\ ret.arg = depositNote.commitment
                   /\ depositNote'.leafIndex = ret.index]_vars
    /\ [][~HasNote /\ depositNote' # depositNote
          => depositNote'.leafIndex = Undefined]_vars

\* C20 witness: main has built the input of the prover; the note carries the
\* index 0 at which its commitment is stored.
C20_Witness ==
    /\ pc = "fullProve" /\ HasNote
    /\ depositNote.leafIndex = 0
    /\ At(layers[0], 0) = depositNote.commitment
    /\ Count(This) = 1

\* The index at level l of the node above leaf i.
PathIndex(i, l) == i \div (2 ^ l)

\* The node of level l on the path of leaf i is, after the step, the hash of
\* its two children as they are after the step: the child on the path and
\* its neighbour, a missing neighbour counting as zeros[l - 1].
PathNodeHashed(i, l) ==
    LET c == PathIndex(i, l - 1)
        current == At(layers'[l - 1], c)
        sibling == Nullish(At(layers'[l - 1], Neighbour(i, l - 1)), At(zeros', l - 1))
    IN  At(layers'[l], PathIndex(i, l)) =
            IF c % 2 = 0
            THEN poseidonHash(<<current, sibling>>)
            ELSE poseidonHash(<<sibling, current>>)

\* C22: an insert that returns index i on an initialized tree of height >= 1
\* writes the nodes layers[l][floor(i / 2^l)], l = 0..height: the leaf, then
\* each parent as the hash of the node below it and that node's neighbour,
\* left and right by the parity of the node's index; every other stored
\* node and zeros stay as they were, and nothing else is stored.
C22_InsertWritesItsPath ==
    [][(InsertStep /\ ~ret'.threw /\ height >= 1 /\ Initialized)
       => LET i == ret'.index
          IN  /\ zeros' = zeros
              /\ DOMAIN layers' = DOMAIN layers
              /\ \A l \in 0..height :
                    /\ DOMAIN layers'[l] = DOMAIN layers[l] \cup {PathIndex(i, l)}
                    /\ \A j \in DOMAIN layers[l] \ {PathIndex(i, l)} :
                          layers'[l][j] = layers[l][j]
              /\ At(layers'[0], i) = ret'.arg
              /\ \A l \in 1..height : PathNodeHashed(i, l)]_vars

\* C22 witness: the third insert on a tree of height 2 returned index 2; it
\* stored a second node at level 1 beside the one of the first two leaves,
\* and the root above both.
C22_Witness ==
    /\ height = 2 /\ ~reinitialized /\ Count(This) = 3
    /\ ret.op = "insert" /\ ~ret.threw /\ ret.index = 2
    /\ DOMAIN layers[1] = {0, 1}
    /\ At(layers[1], 1) = poseidonHash(<<ret.arg, At(zeros, 0)>>)
    /\ At(layers[2], 0) = poseidonHash(<<At(layers[1], 0), At(layers[1], 1)>>)

\* The Merkle hash of the subtree under node j of level l, a leaf position
\* that holds no leaf counting as zeros[0].
RECURSIVE SubtreeHash(_, _)
SubtreeHash(l, j) ==
    IF l = 0
    THEN Nullish(At(layers[0], j), At(zeros, 0))
    ELSE poseidonHash(<<SubtreeHash(l - 1, 2 * j), SubtreeHash(l - 1, 2 * j + 1)>>)

\* C23: on a tree of height >= 1 that was initialized once and then filled
\* by N <= 2^height inserts, node j of level l is stored iff a leaf lies
\* below it (j * 2^l < N); a stored node is the Merkle hash of its subtree
\* with zeros[0] at the empty leaf positions, and for an absent node zeros[l]
\* is that hash.
C23_StoredNodesAreSubtreeHashes ==
    (height >= 1 /\ Initialized /\ ~reinitialized /\ Count(This) <= Capacity(height))
    => \A l \in 0..height :
          /\ DOMAIN layers[l] = {j \in 0..(Capacity(height - l) - 1) :
                                    j * (2 ^ l) < Count(This)}
          /\ \A j \in 0..(Capacity(height - l) - 1) :
                SubtreeHash(l, j) = IF j \in DOMAIN layers[l]
                                    THEN layers[l][j]
                                    ELSE At(zeros, l)

\* C23 witness: three leaves in a tree of height 2: two nodes at level 1, the
\* fourth leaf position empty, the root stored.
C23_Witness ==
    /\ height = 2 /\ Initialized /\ ~reinitialized /\ Count(This) = 3
    /\ DOMAIN layers[0] = {0, 1, 2}
    /\ DOMAIN layers[1] = {0, 1}
    /\ DOMAIN layers[2] = {0}
    /\ At(layers[2], 0) = SubtreeHash(2, 0)
    /\ At(layers[2], 0) # At(zeros, 2)

\* The tree was initialized once, has a height >= 1 and holds fewer leaves
\* than fit.
HasRoom ==
    height >= 1 /\ Initialized /\ ~reinitialized /\ Count(This) < Capacity(height)

C25_SameOutcomes ==
    height >= 1 => ret = twin.ret

\* What C25 keeps of the two shapes: the calls leave the same zeros and the
\* same layers behind while every insert came after an initialize() and
\* initialize() was called on an empty tree only.
C25_SameTreesOnceInitialized ==
    (height >= 1 /\ ~reinitialized /\ Len(hist) = inserts)
        => /\ twin.tree.zeros = zeros
           /\ twin.tree.layers = layers
           /\ ret = twin.ret

\* The values a fold can be started from: the leaves, the zeros and the
\* nodes stored in the tree.
KnownValues ==
    Leaves \cup {zeros[l] : l \in DOMAIN zeros}
           \cup UNION {{layers[l][j] : j \in DOMAIN layers[l]} : l \in DOMAIN layers}

\* Both trees have a height >= 1, were initialized once and hold the same
\* number N <= 2^height of leaves.
BothFilledAlike ==
    /\ height >= 1 /\ Initialized /\ ~reinitialized
    /\ Count(This) <= Capacity(height)
    /\ Count(twin.tree) = Count(This)

\* Different leaf sequences have different roots, and the proof of a stored
\* index folds to the root from the stored leaf only.
RootBindsLeaves ==
    /\ twin.tree.layers[0] # layers[0] => getRoot(twin.tree) # getRoot(This)
    /\ \A i \in 0..(Count(This) - 1) : \A v \in KnownValues :
          FoldProof(v, getProof(This, i)) = getRoot(This) => v = At(layers[0], i)

\* C30: under an injective hash, two trees of the same class shape and
\* height that received leaf sequences of the same length N <= 2^height
\* differing in some position have different getRoot() values, and the proof
\* of an index i < N folds to getRoot() from no other value than the leaf
\* stored at i.
C30_RootBindsLeaves ==
    BothFilledAlike => RootBindsLeaves

\* What C30 keeps: the same on the class shape whose getRoot() falls back to
\* zeros[height] only when no root is stored.
C30_RootBindsLeavesNullish ==
    (BothFilledAlike /\ impl = "fullZKSwap") => RootBindsLeaves

\* The same on both class shapes while the stored root is not 0.
C30_RootBindsLeavesNonZero ==
    (BothFilledAlike /\ StoredRoot(This) # 0 /\ StoredRoot(twin.tree) # 0) => RootBindsLeaves

\* The tree that initialize() and the inserts of the calls made so far, each
\* run to completion in call order, build.
RECURSIVE serialLoop(_, _)
serialLoop(t, c) ==
    IF c <= inserts THEN serialLoop(insert(t, frames[c].leaf).tree, c + 1) ELSE t

SerialTree == serialLoop(initialize(NewTree(impl, height)), 1)

\* Every insert was called on a tree of height >= 1 that initialize() had
\* built before.
CalledOnInitialized ==
    height >= 1 /\ Initialized /\ \A c \in Calls : ~frames[c].lazy

\* C27: insert calls made on an initialized tree while earlier ones are
\* still suspended get the indices 0, 1, 2, ... in call order, and from the
\* moment a call is made its leaf is stored at its index.
C27_IndicesInCallOrder ==
    CalledOnInitialized
        => \A c \in 1..inserts :
              /\ frames[c].at \in {"hash", "returned"}
              /\ frames[c].index = c - 1
              /\ At(layers[0], c - 1) = frames[c].leaf

\* C27 witness: on a tree of height 2 holding one leaf, two inserts are
\* suspended together at the hash of level 0, with the indices 1 and 2 and
\* their leaves stored there.
C27_Witness ==
    /\ CalledOnInitialized /\ height = 2 /\ inserts = 3
    /\ frames[1].at = "returned"
    /\ frames[2].at = "hash" /\ frames[2].level = 0 /\ frames[2].index = 1
    /\ frames[3].at = "hash" /\ frames[3].level = 0 /\ frames[3].index = 2
    /\ frames[2].leaf # frames[3].leaf
    /\ At(layers[0], 1) = frames[2].leaf /\ At(layers[0], 2) = frames[3].leaf

C28_LazyInsertAsInitializeThenInsert ==
    (impl = "zkOnChainTest" /\ height >= 1 /\ frames[1].lazy)
        => /\ \A c \in 1..inserts :
                /\ frames[c].at # "threw"
                /\ frames[c].at \in {"hash", "returned"} => frames[c].index = c - 1
           /\ (Suspended = {} /\ ~overlapped /\ inserts <= Capacity(height))
                => /\ zeros = SerialTree.zeros
                   /\ layers = SerialTree.layers
                   /\ leaves = SerialTree.leaves

\* What C28 keeps: the same when no insert is called while another one is
\* suspended.
C28_LazyInsertAlone ==
    (impl = "zkOnChainTest" /\ height >= 1 /\ frames[1].lazy /\ ~overlapped)
        => /\ \A c \in 1..inserts :
                /\ frames[c].at # "threw"
                /\ frames[c].at \in {"hash", "returned"} => frames[c].index = c - 1
           /\ (Suspended = {} /\ inserts <= Capacity(height))
                => /\ zeros = SerialTree.zeros
                   /\ layers = SerialTree.layers
                   /\ leaves = SerialTree.leaves

\* The place of a step in the trace (0: not taken), how often it was taken,
\* and whether it was taken with the given outcome.
Pos(step) ==
    IF \E k \in DOMAIN trace : trace[k].step = step
    THEN CHOOSE k \in DOMAIN trace : trace[k].step = step
    ELSE 0
Times(step) == Cardinality({k \in DOMAIN trace : trace[k].step = step})
Ended(step, outcome) ==
    \E k \in DOMAIN trace : trace[k].step = step /\ trace[k].outcome = outcome

\* Step b was taken only after step a had succeeded.
Before(a, b) == Pos(b) > 0 => (Ended(a, "ok") /\ Pos(a) < Pos(b))

\* C21: in the relayer flow no transaction on the chain is sent from the
\* account of PRIVATE_KEY.
C21_UserAccountNeverSigns ==
    \A k \in DOMAIN chain : chain[k].from # account.address

\* What C21 keeps: main() sends one transaction at most, addKnownRoot through
\* the owner wallet client; the swap is sent by the relayer after an
\* accepted POST /relay; and the user's account signs only when OWNER_KEY
\* (or the default owner key) is the user's own key.
C21_UserSignsOnlyAsOwner ==
    \A k \in DOMAIN chain :
        /\ chain[k].functionName = "addKnownRoot"
              => k = 1 /\ chain[k].client = "ownerWalletClient"
                       /\ chain[k].from = ownerAccount.address
        /\ chain[k].functionName = "swap"
              => k = 2 /\ chain[k].client = "relayer" /\ Ended("relay", "ok")
        /\ chain[k].from = account.address => ownerAccount = account

\* C26: the steps of the relayer flow come in one order.  A note is created
\* only after the health check succeeded, the insert only after the note,
\* the Merkle proof only after the insert, the ZK proof only after the
\* receipt of addKnownRoot arrived, POST /relay only after the ZK proof and
\* never twice, and once in every run that ends with a ZK proof; when the
\* health check throws or the relayer answers success = false the process
\* has exit code 1 and the privacy verification is not reached.
C26_StepsInOrder ==
    /\ Before("health", "createDepositNote")
    /\ Before("createDepositNote", "insert")
    /\ Before("insert", "getProof")
    /\ Before("receipt", "fullProve")
    /\ Before("fullProve", "relay")
    /\ Times("relay") <= 1
    /\ (pc = "exited" /\ Ended("fullProve", "ok")) => Times("relay") = 1
    /\ Pos("verify") > 0 => (Ended("relay", "ok") /\ Pos("relay") < Pos("verify"))
    /\ (Ended("health", "failed") \/ Ended("relay", "refused"))
          => (pc = "exited" /\ exitCode = 1 /\ Pos("verify") = 0)

\* C26 witness: a run that went through every step and ended with code 0
\* after the privacy verification.
C26_Witness ==
    /\ pc = "exited" /\ exitCode = 0
    /\ Ended("verify", "ok") /\ Times("relay") = 1 /\ Len(trace) = 11
    /\ Pos("health") = 1 /\ Pos("fullProve") = 9 /\ Pos("relay") = 10
    /\ Len(chain) = 2

====
